---------------------------- MODULE Spec2Model ----------------------------
(***************************************************************************)
(* A model of the ASN 856 / SSCC label generator:                          *)
(*   - SSCCGenerator        sscc/generator.py          SpecGen             *)
(*   - CartonizationEngine  cartonization/engine.py    SpecPack            *)
(*   - HierarchyBuilder     asn_builder/hierarchy.py   SpecDoc             *)
(*   - ASNBuilder           asn_builder/builder.py     SpecDoc             *)
(*                                                                         *)
(* Python strings of decimal digits are sequences over 0..9, so str(),     *)
(* zfill() and string concatenation are modelled by what they do.          *)
(* Optional[int] / Optional[float] values use None == -1 (every valid      *)
(* value of those fields is >= 0).  Weights are exact multiples of one     *)
(* weight unit.                                                            *)
(***************************************************************************)
EXTENDS Integers, Sequences, FiniteSets, TLC

VARIABLES
  \* ---- SSCCGenerator -------------------------------------------------
  config,          \* SSCCConfig of the generator (fixed at construction)
  current_serial,  \* SSCCGenerator.current_serial
  issued,          \* history: every SSCC returned by generate_next, in order
  reset_log,       \* history: the argument of every reset call, in order
  last,            \* outcome of the latest call on the generator
  callers,         \* concurrent generate_next calls: position and locals
  \* ---- CartonizationEngine._pack_items_into_cartons -------------------
  pack_config,           \* CartonizationConfig (the packing limits)
  items,                 \* the list of Item objects to pack
  pc,                    \* position of the packing call
  item_idx,              \* index of the "for item in items" loop
  remaining_qty,         \* remaining_qty of the current item
  current_carton_items,  \* _pack_greedy accumulator: entries
  current_carton_qty,    \* _pack_greedy accumulator: units
  current_carton_weight, \* _pack_greedy accumulator: weight
  sequence,              \* next carton sequence number
  cartons,               \* cartons built so far (returned when pc = "done")
  retry,                 \* history: the latest step was "close and retry"
  \* ---- ASNBuilder and its HierarchyBuilder ----------------------------
  shipment,              \* the Shipment of the package handed to the builder
  hl_counter,            \* HierarchyBuilder.hl_counter
  hierarchy,             \* root node returned by the latest build_hierarchy
  asn                    \* outcome of the latest build_asn call

genVars == <<config, current_serial, issued, reset_log, last, callers>>

packVars == <<pack_config, items, pc, item_idx, remaining_qty,
              current_carton_items, current_carton_qty, current_carton_weight,
              sequence, cartons, retry>>

docVars == <<shipment, hl_counter, hierarchy, asn>>

vars == <<genVars, packVars, docVars>>

None == -1

(***************************************************************************)
(* Bounds of the model.                                                    *)
(***************************************************************************)
MaxPadding == 2        \* serial_padding ranges over 1..MaxPadding
MaxIssued == 3         \* generate_next is called while fewer were issued
MaxResets == 1         \* reset is called at most this often
MaxBatch == 2          \* generate_batch(count), count in 0..MaxBatch
MaxLines == 2          \* an order has 0..MaxLines line items
MaxQty == 3            \* quantity of a line item, 1..MaxQty
MaxUnitWeight == 2     \* unit_weight is None or 0..MaxUnitWeight
MaxCap == 3            \* max_items_per_carton, 1..MaxCap
MaxWeightCap == 3      \* max_weight_per_carton is None or 0..MaxWeightCap
MaxOrders == 2         \* a shipment has 0..MaxOrders orders
MaxCartons == 2        \* a shipment has 0..MaxCartons cartons
MaxEntries == 2        \* a carton has up to MaxEntries item entries

(***************************************************************************)
(* Python helpers on digit strings.                                        *)
(***************************************************************************)
RECURSIVE Str(_)
\* str(n) for n >= 0
Str(n) ==
  IF n < 10 THEN <<n>> ELSE Str(n \div 10) \o <<n % 10>>

RECURSIVE zfill(_, _)
\* s.zfill(width) for an unsigned digit string
zfill(s, width) ==
  IF Len(s) >= width THEN s ELSE zfill(<<0>> \o s, width)

reversed(s) ==
  [i \in 1..Len(s) |-> s[Len(s) + 1 - i]]

RECURSIVE Pow10(_)
Pow10(k) ==
  IF k = 0 THEN 1 ELSE 10 * Pow10(k - 1)

(***************************************************************************)
(* SSCC model object and its accessors (label_models.py).                  *)
(***************************************************************************)
SSCC(extension_digit, company_prefix, serial_reference, check_digit) ==
  [extension_digit |-> extension_digit, company_prefix |-> company_prefix,
   serial_reference |-> serial_reference, check_digit |-> check_digit]

get_full_sscc(sscc) ==
  sscc.extension_digit \o sscc.company_prefix \o sscc.serial_reference
    \o sscc.check_digit

NoSSCC == SSCC(<<>>, <<>>, <<>>, <<>>)

(***************************************************************************)
(* SSCCGenerator._calculate_check_digit: GS1 mod-10, weights 3,1,3,1,...   *)
(* from the rightmost digit.                                               *)
(***************************************************************************)
RECURSIVE WeightedTotalFromOne(_, _)
\* mutant: the weights start with 1 at the rightmost digit
WeightedTotalFromOne(rev, i) ==
  IF i >= Len(rev) THEN 0
  ELSE rev[i + 1] * (IF i % 2 = 0 THEN 1 ELSE 3)
       + WeightedTotalFromOne(rev, i + 1)

RECURSIVE WeightedTotal(_, _)
\* the loop "for i, digit in enumerate(reversed(digits))", i counted from 0
WeightedTotal(rev, i) ==
  IF i >= Len(rev) THEN 0
  ELSE rev[i + 1] * (IF i % 2 = 0 THEN 3 ELSE 1) + WeightedTotal(rev, i + 1)

calculate_check_digit(extension, company_prefix, serial_reference) ==
  LET digits == extension \o company_prefix \o serial_reference
      total == WeightedTotal(reversed(digits), 0)
      remainder == total % 10
      check_digit == IF remainder = 0 THEN 0 ELSE 10 - remainder
  IN  Str(check_digit)

\* SSCCGenerator.validate_sscc (static, reads no generator state)
validate_sscc(sscc) ==
  calculate_check_digit(sscc.extension_digit, sscc.company_prefix,
                        sscc.serial_reference) = sscc.check_digit

(***************************************************************************)
(* Configurations the generator is constructed with.                       *)
(***************************************************************************)
CompanyPrefixes ==
  { <<0,6,1,4,1,4,1>>, <<0,6,1,4,1,4,1,0>>, <<9,9,9,9,9,9,9,9,9>>,
    <<1,2,3,4,5,6,7,8,9,0>> }

ExtensionDigits == { <<0>>, <<7>> }

SerialStarts(padding) == {0, 1, Pow10(padding) - 2}

SSCCConfigs ==
  UNION { { [company_prefix |-> p, extension_digit |-> e, serial_start |-> s,
             serial_padding |-> w] :
               p \in CompanyPrefixes, e \in ExtensionDigits,
               s \in SerialStarts(w) } : w \in 1..MaxPadding }

\* outcome of one call: op, whether it returned (ok) or raised, and the value
\* (sscc: the SSCC returned or passed in; list: a batch; text: a string;
\* flag: a boolean result)
Outcome(op, ok, sscc, list, text, flag) ==
  [op |-> op, ok |-> ok, sscc |-> sscc, list |-> list, text |-> text,
   flag |-> flag]

NoCall == Outcome("none", TRUE, NoSSCC, <<>>, <<>>, FALSE)

\* callers that share one generator
Callers == {1, 2}

\* no generate_next call in progress. serial and loaded are the two reads
\* of current_serial a call makes; seen and overlapped are history: how many
\* identifiers were out when the call read the counter, and whether some
\* call began while another was in progress
NoCallers ==
  [at |-> [t \in Callers |-> "idle"],
   serial |-> [t \in Callers |-> None],
   loaded |-> [t \in Callers |-> None],
   sscc |-> [t \in Callers |-> NoSSCC],
   seen |-> [t \in Callers |-> None],
   overlapped |-> FALSE]

\* the generator as the packing specification leaves it: not in use
GenIdle ==
  /\ config = [company_prefix |-> <<0,6,1,4,1,4,1>>, extension_digit |-> <<0>>,
               serial_start |-> 1, serial_padding |-> 9]
  /\ current_serial = 1
  /\ issued = <<>>
  /\ reset_log = <<>>
  /\ last = NoCall
  /\ callers = NoCallers

\* SSCCGenerator.__init__
GenInit ==
  /\ config \in SSCCConfigs
  /\ current_serial = config.serial_start
  /\ issued = <<>>
  /\ reset_log = <<>>
  /\ last = NoCall
  /\ callers = NoCallers

(***************************************************************************)
(* generate_next as a function of the counter: the formatted serial, the   *)
(* overflow test, the SSCC built and the counter after the call.           *)
(***************************************************************************)
SerialStr(serial) == zfill(Str(serial), config.serial_padding)

\* mutant: the width test is off by one digit
OverflowsLate(serial) == Len(SerialStr(serial)) > config.serial_padding + 1

Overflows(serial) == Len(SerialStr(serial)) > config.serial_padding

\* mutant: the check digit is computed without the extension digit
NextSSCCNoExtension(serial) ==
  SSCC(config.extension_digit, config.company_prefix, SerialStr(serial),
       calculate_check_digit(<<>>, config.company_prefix, SerialStr(serial)))

NextSSCC(serial) ==
  SSCC(config.extension_digit, config.company_prefix, SerialStr(serial),
       calculate_check_digit(config.extension_digit, config.company_prefix,
                             SerialStr(serial)))

\* mutant: the counter is not advanced
SerialAfterStuck(serial) == serial

\* mutant: the counter skips a serial
SerialAfterSkip(serial) == serial + 2

SerialAfter(serial) == serial + 1

\* history entry: the SSCC and the number of resets that preceded it
Issue(sscc) == [sscc |-> sscc, epoch |-> Len(reset_log)]

\* SSCCGenerator.generate_next
GenerateNext ==
  /\ Len(issued) < MaxIssued
  /\ IF Overflows(current_serial)
       THEN /\ last' = Outcome("generate_next", FALSE, NoSSCC, <<>>, <<>>,
                               FALSE)
            /\ UNCHANGED <<current_serial, issued>>
       ELSE /\ last' = Outcome("generate_next", TRUE, NextSSCC(current_serial),
                               <<>>, <<>>, FALSE)
            /\ issued' = Append(issued, Issue(NextSSCC(current_serial)))
            /\ current_serial' = SerialAfter(current_serial)
  /\ UNCHANGED <<config, reset_log, callers, packVars, docVars>>

RECURSIVE BatchRun(_, _, _)
\* the comprehension [self.generate_next() for _ in range(count)]: the
\* SSCCs produced so far, the counter, and whether a call raised
BatchRun(serial, count, out) ==
  IF count <= 0 THEN [ok |-> TRUE, serial |-> serial, out |-> out]
  ELSE IF Overflows(serial) THEN [ok |-> FALSE, serial |-> serial, out |-> out]
  ELSE BatchRun(SerialAfter(serial), count - 1, Append(out, NextSSCC(serial)))

\* SSCCGenerator.generate_batch(count)
GenerateBatch(count) ==
  LET run == BatchRun(current_serial, count, <<>>) IN
  /\ Len(issued) + count <= MaxIssued
  /\ last' = Outcome("generate_batch", run.ok, NoSSCC,
                     IF run.ok THEN run.out ELSE <<>>, <<>>, FALSE)
  /\ issued' = issued \o [i \in 1..Len(run.out) |-> Issue(run.out[i])]
  /\ current_serial' = run.serial
  /\ UNCHANGED <<config, reset_log, callers, packVars, docVars>>

\* arguments reset is called with: no argument (None) or a serial
ResetArgs ==
  {None, 0, Pow10(config.serial_padding) - 1}

\* SSCCGenerator.reset(start_serial)
Reset(start_serial) ==
  /\ Len(reset_log) < MaxResets
  /\ current_serial' = IF start_serial # None THEN start_serial
                                              ELSE config.serial_start
  /\ reset_log' = Append(reset_log, start_serial)
  /\ last' = Outcome("reset", TRUE, NoSSCC, <<>>, <<>>, FALSE)
  /\ UNCHANGED <<config, issued, callers, packVars, docVars>>

\* SSCC objects handed to validate_sscc: every SSCC issued so far, and the
\* latest one with its check digit replaced by any digit
ValidateArgs ==
  {issued[i].sscc : i \in 1..Len(issued)} \cup
  (IF issued = <<>> THEN {}
   ELSE {[issued[Len(issued)].sscc EXCEPT !.check_digit = <<d>>] : d \in 0..9})

\* SSCCGenerator.validate_sscc(sscc), called by a user of the generator
ValidateSscc(sscc) ==
  /\ last' = Outcome("validate_sscc", TRUE, sscc, <<>>, <<>>,
                     validate_sscc(sscc))
  /\ UNCHANGED <<config, current_serial, issued, reset_log, callers,
                 packVars, docVars>>

\* the string peek_next_sscc returns for the counter value serial
PeekText(serial) ==
  config.extension_digit \o config.company_prefix \o SerialStr(serial)
    \o calculate_check_digit(config.extension_digit, config.company_prefix,
                             SerialStr(serial))

\* SSCCGenerator.peek_next_sscc
PeekNextSscc ==
  /\ last' = Outcome("peek_next_sscc", TRUE, NoSSCC, <<>>,
                     PeekText(current_serial), FALSE)
  /\ UNCHANGED <<config, current_serial, issued, reset_log, callers,
                 packVars, docVars>>

GenNext ==
  \/ GenerateNext
  \/ \E count \in 0..MaxBatch : GenerateBatch(count)
  \/ \E start_serial \in ResetArgs : Reset(start_serial)
  \/ \E sscc \in ValidateArgs : ValidateSscc(sscc)
  \/ PeekNextSscc

(***************************************************************************)
(* Claims about SSCCGenerator, checked under SpecGen.                      *)
(***************************************************************************)
RECURSIVE DigitsValue(_)
\* the number a digit string denotes
DigitsValue(s) ==
  IF s = <<>> THEN 0 ELSE 10 * DigitsValue(SubSeq(s, 1, Len(s) - 1)) + s[Len(s)]

AllNines(s) == \A i \in 1..Len(s) : s[i] = 9

\* the resets that happened between the i-th and the j-th issued SSCC
ResetsBetween(i, j) ==
  {reset_log[k] : k \in (issued[i].epoch + 1)..issued[j].epoch}

SameSerial(i, j) ==
  issued[i].sscc.serial_reference = issued[j].sscc.serial_reference

\* C6 (as stated): a serial is issued twice by generate_next only when a
\* reset(serial) with an explicit serial happened in between; reset() with
\* no argument never makes a serial come back.
C6_NoReuseAcrossPlainReset ==
  \A i, j \in 1..Len(issued) :
    (i < j /\ SameSerial(i, j)) =>
      \E a \in ResetsBetween(i, j) : a # None

\* C6 (amended): between two consecutive resets (or before the first) no
\* serial is issued twice; a serial is issued again only after a reset, and
\* either kind of reset can bring it back: reset(serial) sets the counter to
\* that serial and reset() sets it to the configured serial_start.
C6_NoReuseBetweenResets ==
  /\ \A i, j \in 1..Len(issued) :
       (i < j /\ SameSerial(i, j)) => issued[i].epoch < issued[j].epoch
  /\ last.op = "reset" =>
       current_serial = IF reset_log[Len(reset_log)] # None
                          THEN reset_log[Len(reset_log)]
                          ELSE config.serial_start

\* C6 witness: a serial has been issued twice although every reset so far
\* was a plain reset()
C6_Witness ==
  /\ reset_log # <<>>
  /\ \A k \in 1..Len(reset_log) : reset_log[k] = None
  /\ \E i, j \in 1..Len(issued) : i < j /\ SameSerial(i, j)

PairwiseDistinct(seq) ==
  \A i, j \in 1..Len(seq) : i # j => seq[i] # seq[j]

\* C7: with no reset so far, the k-th SSCC returned by generate_next carries
\* the serial serial_start + k - 1 written with exactly serial_padding
\* digits, all identifiers returned are pairwise distinct, and so are the
\* identifiers of a returned batch.
C7_SequentialSerials ==
  /\ reset_log = <<>> =>
       /\ \A k \in 1..Len(issued) :
            /\ Len(issued[k].sscc.serial_reference) = config.serial_padding
            /\ DigitsValue(issued[k].sscc.serial_reference)
                 = config.serial_start + k - 1
       /\ PairwiseDistinct([k \in 1..Len(issued) |->
                              get_full_sscc(issued[k].sscc)])
  /\ (last.op = "generate_batch" /\ last.ok) =>
       PairwiseDistinct([k \in 1..Len(last.list) |->
                          get_full_sscc(last.list[k])])

\* C7 witness: three SSCCs issued without a reset, the last two by a batch
C7_Witness ==
  /\ reset_log = <<>>
  /\ Len(issued) >= 3
  /\ last.op = "generate_batch" /\ last.ok /\ Len(last.list) = 2

\* C8: every SSCC returned by generate_next passes validate_sscc; an SSCC
\* whose stored check digit was replaced by another digit is rejected; and
\* a validate_sscc call leaves the counter (and the history) unchanged.
C8_GeneratedValidate ==
  /\ [](\A k \in 1..Len(issued) : validate_sscc(issued[k].sscc))
  /\ [](last.op = "validate_sscc" =>
          (last.flag <=> \E k \in 1..Len(issued) : issued[k].sscc = last.sscc))
  /\ [][last'.op = "validate_sscc" =>
          (current_serial' = current_serial /\ issued' = issued)]_vars

\* C8 witness: validate_sscc has just rejected an issued SSCC whose check
\* digit was altered, for a prefix longer than 7 digits and extension 7
C8_Witness ==
  /\ last.op = "validate_sscc" /\ ~last.flag
  /\ Len(config.company_prefix) > 7 /\ config.extension_digit = <<7>>
  /\ \E k \in 1..Len(issued) :
       [issued[k].sscc EXCEPT !.check_digit = last.sscc.check_digit] = last.sscc

\* C9 (as stated): for every counter value, a peek_next_sscc directly
\* followed by generate_next returned the identifier generate_next then
\* returns; repeated peeks return the same string; peek leaves
\* current_serial unchanged.
C9_PeekMatchesNext ==
  [][ /\ (last.op = "peek_next_sscc" /\ last'.op = "generate_next") =>
           (last'.ok /\ get_full_sscc(last'.sscc) = last.text)
      /\ (last.op = "peek_next_sscc" /\ last'.op = "peek_next_sscc") =>
           last'.text = last.text
      /\ last'.op = "peek_next_sscc" => current_serial' = current_serial
    ]_vars

\* C10: called with a counter that has more digits than serial_padding,
\* generate_next raises, returns no SSCC and leaves counter and history
\* unchanged; the overflowed counter stays as it is under every call but
\* reset, so later calls fail alike; a counter that still fits, the
\* all-nines serial included, is issued.
C10_OverflowRaises ==
  [][ /\ last'.op = "generate_next" =>
           IF Len(Str(current_serial)) > config.serial_padding
             THEN /\ ~last'.ok /\ last'.sscc = NoSSCC
                  /\ current_serial' = current_serial /\ issued' = issued
             ELSE /\ last'.ok
                  /\ DigitsValue(last'.sscc.serial_reference) = current_serial
                  /\ Len(last'.sscc.serial_reference) = config.serial_padding
      /\ (Len(Str(current_serial)) > config.serial_padding
            /\ last'.op # "reset") => current_serial' = current_serial
    ]_vars

\* C10 witness: the all-nines serial was issued and the generate_next after
\* it has raised, the counter standing one past the last serial that fits
C10_Witness ==
  /\ last.op = "generate_next" /\ ~last.ok
  /\ current_serial = Pow10(config.serial_padding)
  /\ \E k \in 1..Len(issued) : AllNines(issued[k].sscc.serial_reference)

(***************************************************************************)
(* CartonizationEngine: packing of line items into cartons.                *)
(* An Item is [line, quantity, unit_weight]; line stands for the fields    *)
(* the engine copies verbatim into every piece (sku, description, uom),    *)
(* so a piece in a carton names the line item it was carved from.          *)
(***************************************************************************)
Item(line, quantity, unit_weight) ==
  [line |-> line, quantity |-> quantity, unit_weight |-> unit_weight]

\* Python truth value of an Optional number: None and 0 are false
Truthy(x) == x # None /\ x # 0

\* int(a / b) for b > 0: truncation toward zero
IntDiv(a, b) ==
  IF a >= 0 THEN a \div b ELSE -((-a) \div b)

Min(a, b) == IF a <= b THEN a ELSE b

\* CartonizationConfig: the values its validators accept (ge=1, ge=0 or None)
PackConfigs ==
  [max_items_per_carton : 1..MaxCap,
   max_weight_per_carton : {None} \cup 0..MaxWeightCap,
   single_item_cartons : BOOLEAN]

UnitWeights == {None} \cup 0..MaxUnitWeight

\* the item lists _convert_line_items_to_items can produce, line k at index k
ItemLists ==
  UNION { { [k \in 1..n |-> Item(k, q[k], w[k])] :
              q \in [1..n -> 1..MaxQty], w \in [1..n -> UnitWeights] } :
          n \in 0..MaxLines }

\* Item.get_total_weight / Carton.calculate_weight
RECURSIVE calculate_weight(_)
calculate_weight(entries) ==
  IF entries = <<>> THEN 0
  ELSE (IF Truthy(Head(entries).unit_weight)
          THEN Head(entries).quantity * Head(entries).unit_weight ELSE 0)
       + calculate_weight(Tail(entries))

\* Carton.get_total_units
RECURSIVE get_total_units(_)
get_total_units(entries) ==
  IF entries = <<>> THEN 0
  ELSE Head(entries).quantity + get_total_units(Tail(entries))

\* mutant: the sequence numbers start at 0
create_carton_from_zero(entries, seq) ==
  [sequence_number |-> seq - 1, items |-> entries]

\* CartonizationEngine._create_carton / the Carton built in
\* _pack_single_item_type
create_carton(entries, seq) ==
  [sequence_number |-> seq, items |-> entries]

PackInit ==
  /\ pack_config \in PackConfigs
  /\ items \in ItemLists
  /\ pc = "start"
  /\ item_idx = 0
  /\ remaining_qty = 0
  /\ current_carton_items = <<>>
  /\ current_carton_qty = 0
  /\ current_carton_weight = 0
  /\ sequence = 1
  /\ cartons = <<>>
  /\ retry = FALSE

\* mutant: the emptiness test runs after an identifier has been taken
CartonizeEmptyConsumes ==
  /\ pc = "start"
  /\ items = <<>>
  /\ pc' = "error"
  /\ current_serial' = SerialAfter(current_serial)
  /\ UNCHANGED <<pack_config, items, item_idx, remaining_qty,
                 current_carton_items, current_carton_qty,
                 current_carton_weight, sequence, cartons, retry,
                 config, issued, reset_log, last, callers, docVars>>

\* cartonize_order, step 1: an order without items is refused
CartonizeEmpty ==
  /\ pc = "start"
  /\ items = <<>>
  /\ pc' = "error"
  /\ UNCHANGED <<pack_config, items, item_idx, remaining_qty,
                 current_carton_items, current_carton_qty,
                 current_carton_weight, sequence, cartons, retry,
                 genVars, docVars>>

\* _pack_items_into_cartons: choose the mode and enter the loop over items
PackStart ==
  /\ pc = "start"
  /\ items # <<>>
  /\ pc' = IF pack_config.single_item_cartons THEN "grouped" ELSE "greedy"
  /\ item_idx' = 1
  /\ remaining_qty' = items[1].quantity
  /\ UNCHANGED <<pack_config, items, current_carton_items, current_carton_qty,
                 current_carton_weight, sequence, cartons, retry,
                 genVars, docVars>>

\* qty_to_add computed against the whole cap instead of space_remaining
QtyToAddIgnoresFill ==
  Min(remaining_qty, pack_config.max_items_per_carton)

\* _pack_greedy: qty_to_add of one while-iteration
QtyToAdd ==
  LET item == items[item_idx]
      space_remaining == pack_config.max_items_per_carton - current_carton_qty
      qty == Min(remaining_qty, space_remaining)
  IN  IF Truthy(pack_config.max_weight_per_carton) /\ Truthy(item.unit_weight)
        THEN Min(qty, IntDiv(pack_config.max_weight_per_carton
                               - current_carton_weight, item.unit_weight))
        ELSE qty

\* _pack_greedy, "if qty_to_add <= 0": close the current carton and retry
GreedyCloseRetry ==
  /\ pc = "greedy"
  /\ remaining_qty > 0
  /\ QtyToAdd <= 0
  /\ IF current_carton_items # <<>>
       THEN /\ cartons' = Append(cartons,
                                 create_carton(current_carton_items, sequence))
            /\ sequence' = sequence + 1
       ELSE UNCHANGED <<cartons, sequence>>
  /\ current_carton_items' = <<>>
  /\ current_carton_qty' = 0
  /\ current_carton_weight' = 0
  /\ retry' = TRUE
  /\ UNCHANGED <<pack_config, items, pc, item_idx, remaining_qty,
                 genVars, docVars>>

\* _pack_greedy: add qty_to_add units of the current item to the carton
GreedyAdmit ==
  /\ pc = "greedy"
  /\ remaining_qty > 0
  /\ QtyToAdd > 0
  /\ current_carton_items' =
       Append(current_carton_items,
              Item(items[item_idx].line, QtyToAdd, items[item_idx].unit_weight))
  /\ current_carton_qty' = current_carton_qty + QtyToAdd
  /\ current_carton_weight' =
       IF Truthy(items[item_idx].unit_weight)
         THEN current_carton_weight + QtyToAdd * items[item_idx].unit_weight
         ELSE current_carton_weight
  /\ remaining_qty' = remaining_qty - QtyToAdd
  /\ retry' = FALSE
  /\ UNCHANGED <<pack_config, items, pc, item_idx, sequence, cartons,
                 genVars, docVars>>

\* _pack_greedy: the while loop ends; next item, or the final carton
GreedyNextItem ==
  /\ pc = "greedy"
  /\ remaining_qty = 0
  /\ IF item_idx < Len(items)
       THEN /\ item_idx' = item_idx + 1
            /\ remaining_qty' = items[item_idx + 1].quantity
            /\ UNCHANGED <<pc, cartons>>
       ELSE /\ cartons' = IF current_carton_items # <<>>
                            THEN Append(cartons,
                                        create_carton(current_carton_items,
                                                      sequence))
                            ELSE cartons
            /\ pc' = "done"
            /\ UNCHANGED <<item_idx, remaining_qty>>
  /\ UNCHANGED <<pack_config, items, current_carton_items, current_carton_qty,
                 current_carton_weight, sequence, retry,
                 genVars, docVars>>

\* _pack_single_item_type: carton_qty of one while-iteration
CartonQty ==
  LET item == items[item_idx]
      qty == Min(remaining_qty, pack_config.max_items_per_carton)
  IN  IF Truthy(pack_config.max_weight_per_carton) /\ Truthy(item.unit_weight)
        THEN LET byWeight == Min(qty, IntDiv(pack_config.max_weight_per_carton,
                                             item.unit_weight))
             IN  IF byWeight < 1 THEN 1 ELSE byWeight
        ELSE qty

\* _pack_single_item_type: one carton holding carton_qty units of the item
GroupedCarve ==
  /\ pc = "grouped"
  /\ remaining_qty > 0
  /\ cartons' = Append(cartons,
                       create_carton(<<Item(items[item_idx].line, CartonQty,
                                            items[item_idx].unit_weight)>>,
                                     sequence))
  /\ remaining_qty' = remaining_qty - CartonQty
  /\ sequence' = sequence + 1
  /\ UNCHANGED <<pack_config, items, pc, item_idx, current_carton_items,
                 current_carton_qty, current_carton_weight, retry,
                 genVars, docVars>>

\* _pack_items_into_cartons, grouped mode: next item, or return
GroupedNextItem ==
  /\ pc = "grouped"
  /\ remaining_qty = 0
  /\ IF item_idx < Len(items)
       THEN /\ item_idx' = item_idx + 1
            /\ remaining_qty' = items[item_idx + 1].quantity
            /\ UNCHANGED pc
       ELSE /\ pc' = "done"
            /\ UNCHANGED <<item_idx, remaining_qty>>
  /\ UNCHANGED <<pack_config, items, current_carton_items, current_carton_qty,
                 current_carton_weight, sequence, cartons, retry,
                 genVars, docVars>>

(***************************************************************************)
(* Claims about packing, checked under SpecPack.                           *)
(***************************************************************************)
\* units of line item l over a list of entries
RECURSIVE LineUnits(_, _)
LineUnits(entries, l) ==
  IF entries = <<>> THEN 0
  ELSE (IF Head(entries).line = l THEN Head(entries).quantity ELSE 0)
       + LineUnits(Tail(entries), l)

\* the entries of all the cartons of a list, in order
RECURSIVE AllEntries(_)
AllEntries(cs) ==
  IF cs = <<>> THEN <<>> ELSE Head(cs).items \o AllEntries(Tail(cs))

\* C2 (as stated): in the greedy loop a "close the current carton and retry"
\* step is always followed by an iteration that admits at least one unit,
\* so packing cannot repeat that step forever.
C2_RetryAdmits ==
  (pc = "greedy" /\ retry) => (remaining_qty > 0 /\ QtyToAdd >= 1)

\* C3: when packing returns under a unit cap and no weight cap, in either
\* mode, every carton holds at most max_items_per_carton units and for each
\* input line item the quantities of its pieces over all cartons sum to the
\* item's quantity.
C3_CapAndConservation ==
  (pc = "done" /\ pack_config.max_weight_per_carton = None) =>
    /\ \A k \in 1..Len(cartons) :
         get_total_units(cartons[k].items) <= pack_config.max_items_per_carton
    /\ \A l \in 1..Len(items) :
         LineUnits(AllEntries(cartons), l) = items[l].quantity
    /\ get_total_units(AllEntries(cartons)) = get_total_units(items)

\* C3 witness: greedy packing without weight cap has returned two line items
\* in at least two cartons, one carton mixing pieces of both
C3_Witness ==
  /\ pc = "done" /\ pack_config.max_weight_per_carton = None
  /\ ~pack_config.single_item_cartons
  /\ Len(items) = 2 /\ Len(cartons) >= 2
  /\ \E k \in 1..Len(cartons) : Len(cartons[k].items) = 2

\* a carton that holds a single unit whose own weight exceeds the cap
SingleOverweightUnit(c) ==
  /\ get_total_units(c.items) = 1
  /\ calculate_weight(c.items) > pack_config.max_weight_per_carton

\* C4 (as stated): when packing returns with a weight cap W configured,
\* every carton weighs at most W unless it holds a single unit heavier
\* than W.
C4_WeightCap ==
  (pc = "done" /\ pack_config.max_weight_per_carton # None) =>
    \A k \in 1..Len(cartons) :
      \/ calculate_weight(cartons[k].items) <= pack_config.max_weight_per_carton
      \/ SingleOverweightUnit(cartons[k])

\* the same with the weight cap at least one weight unit
C4_WeightCapPositive ==
  (pc = "done" /\ Truthy(pack_config.max_weight_per_carton)) =>
    \A k \in 1..Len(cartons) :
      \/ calculate_weight(cartons[k].items) <= pack_config.max_weight_per_carton
      \/ SingleOverweightUnit(cartons[k])

(***************************************************************************)
(* EDI text.  A str is a TLA+ string (None for an Optional[str] is the     *)
(* empty string: the code only tests such fields for truth).  A segment    *)
(* is the sequence of its elements, i.e. the text between the element      *)
(* separators, segment name first; a document is the sequence of the       *)
(* segments it writes, each followed by the segment terminator.            *)
(***************************************************************************)
DigitChars == <<"0", "1", "2", "3", "4", "5", "6", "7", "8", "9">>

RECURSIVE Text(_)
\* the str whose characters are the digits of a digit string
Text(s) ==
  IF s = <<>> THEN "" ELSE DigitChars[Head(s) + 1] \o Text(Tail(s))

\* str(n) and f"{n}" for an int n >= 0
NumText(n) == Text(Str(n))

\* f"{w:.2f}" for a weight of w whole weight units
Fixed2(w) == NumText(w) \o ".00"

RECURSIVE ljust(_, _)
\* s.ljust(width)[:width] for a str of at most width characters
ljust(s, width) ==
  IF Len(s) >= width THEN s ELSE ljust(s \o " ", width)

\* a datetime, as the digit strings strftime renders its fields with
DateTime(Y, m, d, H, M, S) ==
  [Y |-> Y, m |-> m, d |-> d, H |-> H, M |-> M, S |-> S]

\* strftime("%Y%m%d")
strftime_Ymd(t) == Text(t.Y \o t.m \o t.d)

\* strftime("%y%m%d")
strftime_ymd(t) == Text(SubSeq(t.Y, 3, 4) \o t.m \o t.d)

\* strftime("%H%M")
strftime_HM(t) == Text(t.H \o t.M)

(***************************************************************************)
(* SegmentGenerator (segments.py).  Control numbers are digit strings.     *)
(***************************************************************************)
generate_isa(sender_id, receiver_id, control_number, timestamp) ==
  <<"ISA", "00", "          ", "00", "          ",
    "ZZ", ljust(sender_id, 15), "ZZ", ljust(receiver_id, 15),
    strftime_ymd(timestamp), strftime_HM(timestamp), "U", "00401",
    Text(zfill(control_number, 9)), "0", "P", ":">>

generate_gs(sender_code, receiver_code, control_number, timestamp) ==
  <<"GS", "SH", sender_code, receiver_code, strftime_Ymd(timestamp),
    strftime_HM(timestamp), Text(zfill(control_number, 9)), "X", "004010">>

\* mutant: GE02 is the control number as passed, without padding
generate_ge_unpadded(transaction_count, control_number) ==
  <<"GE", NumText(transaction_count), Text(control_number)>>

generate_ge(transaction_count, control_number) ==
  <<"GE", NumText(transaction_count), Text(zfill(control_number, 9))>>

generate_iea(group_count, control_number) ==
  <<"IEA", NumText(group_count), Text(zfill(control_number, 9))>>

generate_st(control_number) ==
  <<"ST", "856", Text(zfill(control_number, 4))>>

generate_se(segment_count, control_number) ==
  <<"SE", NumText(segment_count), Text(zfill(control_number, 4))>>

generate_bsn(shipment_id, ship_date) ==
  <<"BSN", "00", shipment_id, strftime_Ymd(ship_date), strftime_HM(ship_date)>>

\* mutant: the node's own number is written as its parent
generate_hl_own_parent(hl_number, parent_hl, level_code, has_children) ==
  <<"HL", hl_number, hl_number, level_code,
    IF has_children THEN "1" ELSE "0">>

generate_hl(hl_number, parent_hl, level_code, has_children) ==
  <<"HL", hl_number, IF parent_hl # "" THEN parent_hl ELSE "", level_code,
    IF has_children THEN "1" ELSE "0">>

generate_ref(qualifier, reference_id, description) ==
  <<"REF", qualifier, reference_id>>
    \o (IF description # "" THEN <<description>> ELSE <<>>)

generate_dtm(qualifier, date_value) ==
  <<"DTM", qualifier, strftime_Ymd(date_value), "204">>

generate_n1(entity_code, name) ==
  <<"N1", entity_code, name>>

generate_n3(address_line1, address_line2) ==
  <<"N3", address_line1>>
    \o (IF address_line2 # "" THEN <<address_line2>> ELSE <<>>)

\* "TD1", TD101, TD102, the three skipped elements, then the weight group
generate_td1(packaging_code, lading_quantity, weight) ==
  <<"TD1", IF packaging_code # "" THEN packaging_code ELSE "",
    IF Truthy(lading_quantity) THEN NumText(lading_quantity) ELSE "",
    "", "", "">>
    \o (IF weight # None THEN <<"G", Fixed2(weight), "LB">> ELSE <<>>)

generate_td5(carrier_code) ==
  <<"TD5", "B">> \o (IF carrier_code # "" THEN <<"2", carrier_code>> ELSE <<>>)

generate_lin(product_id, product_id_qualifier) ==
  <<"LIN", "", product_id_qualifier, product_id>>

generate_sn1(quantity, uom) ==
  <<"SN1", "", NumText(quantity), uom>>

\* mutant: a missing weight is written as blank elements
generate_ctt_padded(line_count, total_weight) ==
  <<"CTT", NumText(line_count), "", "",
    IF total_weight # None THEN Fixed2(total_weight) ELSE "",
    IF total_weight # None THEN "LB" ELSE "">>

generate_ctt(line_count, total_weight) ==
  <<"CTT", NumText(line_count)>>
    \o (IF total_weight # None THEN <<"", "", Fixed2(total_weight), "LB">>
        ELSE <<>>)

(***************************************************************************)
(* Shipment, Order and Carton (internal_models.py) and the packages the    *)
(* builder is handed.  An address is the list of the parts that ", "       *)
(* separates in its text.                                                  *)
(***************************************************************************)
ItemSku(item) == "SKU-" \o NumText(item.line)

ItemUom(item) == "EA"

Carton(carton_id, sscc, sequence_number, entries) ==
  [carton_id |-> carton_id, sscc |-> sscc,
   sequence_number |-> sequence_number, items |-> entries, weight |-> None,
   packaging_code |-> "CTN"]

Order(order_id, purchase_order, carton_ids) ==
  [order_id |-> order_id, purchase_order |-> purchase_order,
   carton_ids |-> carton_ids]

\* weight of a carton as calculate_totals and _build_carton_level take it
CartonWeight(c) ==
  IF Truthy(c.weight) THEN c.weight ELSE calculate_weight(c.items)

RECURSIVE SumCartonWeights(_)
SumCartonWeights(cs) ==
  IF cs = <<>> THEN 0
  ELSE CartonWeight(Head(cs)) + SumCartonWeights(Tail(cs))

\* Shipment.calculate_totals: the total_weight it stores
calculate_totals(cs) ==
  IF SumCartonWeights(cs) > 0 THEN SumCartonWeights(cs) ELSE None

ShipDate ==
  DateTime(<<2,0,2,5>>, <<1,2>>, <<1,5>>, <<0,0>>, <<0,0>>, <<0,0>>)

GeneratedAt ==
  DateTime(<<2,0,2,5>>, <<1,2>>, <<1,4>>, <<1,8>>, <<3,0>>, <<0,7>>)

Shipment(carrier_code, ship_from_address, ship_to_address, orders, cs) ==
  [shipment_id |-> "SHIP-ORD-2025-001", ship_date |-> ShipDate,
   ship_from_name |-> "ACME Warehouse",
   ship_from_address |-> ship_from_address,
   ship_to_name |-> "Retail Store #42",
   ship_to_address |-> ship_to_address,
   carrier_code |-> carrier_code, orders |-> orders, cartons |-> cs,
   total_weight |-> calculate_totals(cs), total_cartons |-> Len(cs)]

\* CartonizationConfig.get_carton_id with the default prefix and padding
get_carton_id(seq) == "CTN-" \o Text(zfill(Str(seq), 4))

\* the SSCC text the engine's generator (default configuration) gives the
\* carton with this serial
CartonSscc(serial) ==
  Text(get_full_sscc(
    SSCC(<<0>>, <<0,6,1,4,1,4,1>>, zfill(Str(serial), 9),
         calculate_check_digit(<<0>>, <<0,6,1,4,1,4,1>>,
                               zfill(Str(serial), 9)))))

\* the first n entries of a carton: entry k holds k units of line k, and
\* only the entries after the first carry a unit weight
Entries(n) ==
  [k \in 1..n |-> Item(k, k, IF k = 1 THEN None ELSE 2)]

\* carton ids the k-th carton can carry: its own, or again the first one's
IdsAt(k) == {get_carton_id(k), get_carton_id(1)}

\* the k-th carton of a shipment: complete with 1..MaxEntries entries, or
\* without SSCC, or with its item list emptied
CartonsAt(k) ==
  { Carton(id, CartonSscc(k), k, Entries(n)) :
      id \in IdsAt(k), n \in 1..MaxEntries }
  \cup { Carton(id, "", k, Entries(1)) : id \in IdsAt(k) }
  \cup { Carton(id, CartonSscc(k), k, <<>>) : id \in IdsAt(k) }

CartonLists ==
  UNION { { cs \in [1..n -> UNION { CartonsAt(k) : k \in 1..n }] :
              \A k \in 1..n : cs[k] \in CartonsAt(k) } :
          n \in 0..MaxCartons }

\* carton id lists of an order: none, resolved ids, an id no carton has
\* followed by a resolved one, and one id listed twice
CartonIdLists ==
  { <<>>, <<get_carton_id(1)>>, <<get_carton_id(1), get_carton_id(2)>>,
    <<"CTN-9999", get_carton_id(1)>>, <<get_carton_id(2), get_carton_id(2)>> }

OrderLists ==
  UNION { { [k \in 1..n |-> Order("ORD-" \o NumText(k), "PO-" \o NumText(k),
                                  ids[k])] :
              ids \in [1..n -> CartonIdLists] } :
          n \in 0..MaxOrders }

CarrierCodes == {"", "UPSN"}

Addresses ==
  { <<"123 Industrial Blvd", "Dallas", "TX 75201">>, <<"DOCK 4">> }

Shipments ==
  { Shipment(carrier_code, ship_from_address, ship_to_address, orders, cs) :
      carrier_code \in CarrierCodes, ship_from_address \in Addresses,
      ship_to_address \in Addresses, orders \in OrderLists,
      cs \in CartonLists }

\* control_number argument of build_asn: absent, or a digit string shorter
\* or longer than the widths it is padded to
NoControlNumber == <<None>>

ControlNumbers == {NoControlNumber, <<4, 2>>, <<1,2,3,4,5,6,7,8,9,0>>}

(***************************************************************************)
(* HierarchyBuilder (hierarchy.py).  Every builder takes the value of      *)
(* hl_counter before it runs and returns the node built together with the  *)
(* value of hl_counter after it.                                           *)
(***************************************************************************)
HierarchyNode(hl_number, parent_hl, level_code, segments, children) ==
  [hl_number |-> hl_number, parent_hl |-> parent_hl,
   level_code |-> level_code, segments |-> segments, children |-> children]

NoNode == HierarchyNode("", "", "", <<>>, <<>>)

RECURSIVE get_all_segments(_)
RECURSIVE ChildSegments(_)
\* HierarchyNode.get_all_segments
get_all_segments(node) ==
  node.segments \o ChildSegments(node.children)

\* its loop "for child in self.children"
ChildSegments(children) ==
  IF children = <<>> THEN <<>>
  ELSE get_all_segments(Head(children)) \o ChildSegments(Tail(children))

RECURSIVE count_nodes(_)
RECURSIVE ChildNodes(_)
\* HierarchyNode.count_nodes
count_nodes(node) == 1 + ChildNodes(node.children)

ChildNodes(children) ==
  IF children = <<>> THEN 0
  ELSE count_nodes(Head(children)) + ChildNodes(Tail(children))

\* _get_next_hl: the counter after "self.hl_counter += 1"
get_next_hl(counter) == counter + 1

Built(node, counter) == [node |-> node, counter |-> counter]

build_item_level(item, parent_hl, counter) ==
  LET hl_number == NumText(get_next_hl(counter))
      segments == << generate_hl(hl_number, parent_hl, "I", FALSE),
                     generate_lin(ItemSku(item), "SK"),
                     generate_sn1(item.quantity, ItemUom(item)) >>
  IN  Built(HierarchyNode(hl_number, parent_hl, "I", segments, <<>>),
            get_next_hl(counter))

RECURSIVE ItemLoop(_, _, _, _)
\* _build_carton_level, "for item in carton.items"
ItemLoop(entries, parent_hl, counter, children) ==
  IF entries = <<>> THEN [children |-> children, counter |-> counter]
  ELSE LET b == build_item_level(Head(entries), parent_hl, counter)
       IN  ItemLoop(Tail(entries), parent_hl, b.counter,
                    Append(children, b.node))

build_carton_level(carton, parent_hl, counter) ==
  LET hl_number == NumText(get_next_hl(counter))
      segments ==
        << generate_hl(hl_number, parent_hl, "T", TRUE) >>
        \o (IF carton.sscc # "" THEN << generate_ref("0J", carton.sscc, "") >>
            ELSE <<>>)
        \o << generate_td1(carton.packaging_code, 1, CartonWeight(carton)) >>
      loop == ItemLoop(carton.items, hl_number, get_next_hl(counter), <<>>)
  IN  Built(HierarchyNode(hl_number, parent_hl, "T", segments, loop.children),
            loop.counter)

\* mutant: the last carton with the id is taken
FindCartonLast(cs, carton_id) ==
  IF \E i \in 1..Len(cs) : cs[i].carton_id = carton_id
    THEN CHOOSE i \in 1..Len(cs) :
           /\ cs[i].carton_id = carton_id
           /\ \A j \in (i + 1)..Len(cs) : cs[j].carton_id # carton_id
    ELSE 0

\* next((c for c in shipment.cartons if c.carton_id == carton_id), None):
\* the index of the carton found, 0 for None
FindCarton(cs, carton_id) ==
  IF \E i \in 1..Len(cs) : cs[i].carton_id = carton_id
    THEN CHOOSE i \in 1..Len(cs) :
           /\ cs[i].carton_id = carton_id
           /\ \A j \in 1..(i - 1) : cs[j].carton_id # carton_id
    ELSE 0

RECURSIVE CartonLoopCountsMiss(_, _, _, _, _)
\* mutant: an id that names no carton still takes an HL number
CartonLoopCountsMiss(carton_ids, parent_hl, shp, counter, children) ==
  IF carton_ids = <<>> THEN [children |-> children, counter |-> counter]
  ELSE IF FindCarton(shp.cartons, Head(carton_ids)) = 0
    THEN CartonLoopCountsMiss(Tail(carton_ids), parent_hl, shp,
                              get_next_hl(counter), children)
  ELSE LET b == build_carton_level(
                  shp.cartons[FindCarton(shp.cartons, Head(carton_ids))],
                  parent_hl, counter)
       IN  CartonLoopCountsMiss(Tail(carton_ids), parent_hl, shp, b.counter,
                                Append(children, b.node))

RECURSIVE CartonLoop(_, _, _, _, _)
\* _build_order_level, "for carton_id in order.carton_ids"
CartonLoop(carton_ids, parent_hl, shp, counter, children) ==
  IF carton_ids = <<>> THEN [children |-> children, counter |-> counter]
  ELSE IF FindCarton(shp.cartons, Head(carton_ids)) = 0
    THEN CartonLoop(Tail(carton_ids), parent_hl, shp, counter, children)
  ELSE LET b == build_carton_level(
                  shp.cartons[FindCarton(shp.cartons, Head(carton_ids))],
                  parent_hl, counter)
       IN  CartonLoop(Tail(carton_ids), parent_hl, shp, b.counter,
                      Append(children, b.node))

\* mutant: the flag tells whether carton nodes were built
build_order_level_actual(order, parent_hl, shp, counter) ==
  LET hl_number == NumText(get_next_hl(counter))
      loop == CartonLoop(order.carton_ids, hl_number, shp,
                         get_next_hl(counter), <<>>)
      segments == << generate_hl(hl_number, parent_hl, "O",
                                 loop.children # <<>>),
                     generate_ref("PO", order.purchase_order, "") >>
  IN  Built(HierarchyNode(hl_number, parent_hl, "O", segments, loop.children),
            loop.counter)

build_order_level(order, parent_hl, shp, counter) ==
  LET hl_number == NumText(get_next_hl(counter))
      segments == << generate_hl(hl_number, parent_hl, "O", TRUE),
                     generate_ref("PO", order.purchase_order, "") >>
      loop == CartonLoop(order.carton_ids, hl_number, shp,
                         get_next_hl(counter), <<>>)
  IN  Built(HierarchyNode(hl_number, parent_hl, "O", segments, loop.children),
            loop.counter)

RECURSIVE OrderLoop(_, _, _, _, _)
\* _build_shipment_level, "for order in shipment.orders"
OrderLoop(orders, parent_hl, shp, counter, children) ==
  IF orders = <<>> THEN [children |-> children, counter |-> counter]
  ELSE LET b == build_order_level(Head(orders), parent_hl, shp, counter)
       IN  OrderLoop(Tail(orders), parent_hl, shp, b.counter,
                     Append(children, b.node))

build_shipment_level(shp, counter) ==
  LET hl_number == NumText(get_next_hl(counter))
      segments ==
        << generate_hl(hl_number, "", "S", TRUE) >>
        \o (IF shp.carrier_code # "" THEN << generate_td5(shp.carrier_code) >>
            ELSE <<>>)
        \o << generate_dtm("011", shp.ship_date),
              generate_n1("SF", shp.ship_from_name) >>
        \o (IF Len(shp.ship_from_address) >= 2
              THEN << generate_n3(shp.ship_from_address[1], "") >> ELSE <<>>)
        \o << generate_n1("ST", shp.ship_to_name) >>
        \o (IF Len(shp.ship_to_address) >= 2
              THEN << generate_n3(shp.ship_to_address[1], "") >> ELSE <<>>)
      loop == OrderLoop(shp.orders, hl_number, shp, get_next_hl(counter),
                        <<>>)
  IN  Built(HierarchyNode(hl_number, "", "S", segments, loop.children),
            loop.counter)

\* mutant: the counter is not reset
build_hierarchy_continuing(shp) == build_shipment_level(shp, hl_counter)

\* build_hierarchy: the counter is reset to 0, then the root is built
build_hierarchy(shp) == build_shipment_level(shp, 0)

\* mutant: every node is counted as a line item
get_line_item_count_nodes(root) == count_nodes(root)

RECURSIVE get_line_item_count(_)
RECURSIVE ChildLineItems(_)
\* HierarchyBuilder.get_line_item_count
get_line_item_count(root) ==
  IF root.level_code = "I" THEN 1 ELSE ChildLineItems(root.children)

ChildLineItems(children) ==
  IF children = <<>> THEN 0
  ELSE get_line_item_count(Head(children)) + ChildLineItems(Tail(children))

(***************************************************************************)
(* ASNBuilder (builder.py).                                                *)
(***************************************************************************)
RECURSIVE CartonFaultLast(_)
\* mutant: the last offending carton is reported
CartonFaultLast(cs) ==
  IF cs = <<>> THEN ""
  ELSE IF CartonFaultLast(Tail(cs)) # "" THEN CartonFaultLast(Tail(cs))
  ELSE IF Head(cs).items = <<>>
    THEN "Carton " \o Head(cs).carton_id \o " must have at least one item"
  ELSE IF Head(cs).sscc = ""
    THEN "Carton " \o Head(cs).carton_id \o " must have an SSCC"
  ELSE ""

RECURSIVE CartonFault(_)
\* _validate_shipment_package, "for carton in shipment.cartons": the
\* message of the first error raised, "" when none is
CartonFault(cs) ==
  IF cs = <<>> THEN ""
  ELSE IF Head(cs).items = <<>>
    THEN "Carton " \o Head(cs).carton_id \o " must have at least one item"
  ELSE IF Head(cs).sscc = ""
    THEN "Carton " \o Head(cs).carton_id \o " must have an SSCC"
  ELSE CartonFault(Tail(cs))

\* _validate_shipment_package: the message of the ValueError, "" when valid
validate_shipment_package(shp) ==
  IF shp.orders = <<>> THEN "Shipment must have at least one order"
  ELSE IF shp.cartons = <<>> THEN "Shipment must have at least one carton"
  ELSE CartonFault(shp.cartons)

\* _generate_control_number: the last 9 characters of "%Y%m%d%H%M%S"
generate_control_number(generated_at) ==
  LET timestamp == generated_at.Y \o generated_at.m \o generated_at.d
                     \o generated_at.H \o generated_at.M \o generated_at.S
  IN  SubSeq(timestamp, Len(timestamp) - 8, Len(timestamp))

\* build_asn after validation: the segments of the document it returns
build_asn(shp, sender_id, receiver_id, control_number) ==
  LET hierarchy_root == build_hierarchy(shp).node
      line_count == get_line_item_count(hierarchy_root)
      segments ==
        << generate_isa(sender_id, receiver_id, control_number, shp.ship_date),
           generate_gs(sender_id, receiver_id, control_number, shp.ship_date),
           generate_st(control_number),
           generate_bsn(shp.shipment_id, shp.ship_date) >>
        \o get_all_segments(hierarchy_root)
        \o << generate_ctt(line_count, shp.total_weight) >>
      transaction_segment_count == Len(segments) - 2 + 2
  IN  segments
        \o << generate_se(transaction_segment_count, control_number),
              generate_ge(1, control_number),
              generate_iea(1, control_number) >>

Asn(status, document, error) ==
  [status |-> status, document |-> document, error |-> error]

NoAsn == Asn("none", <<>>, "")

\* ASNBuilder.__init__ and the package it is about to be handed
DocInit ==
  /\ shipment \in Shipments
  /\ hl_counter = 0
  /\ hierarchy = NoNode
  /\ asn = NoAsn

\* HierarchyBuilder.build_hierarchy(shipment), called on the builder's
\* hierarchy_builder
BuildHierarchy ==
  /\ hierarchy' = build_hierarchy(shipment).node
  /\ hl_counter' = build_hierarchy(shipment).counter
  /\ UNCHANGED <<shipment, asn, genVars, packVars>>

\* ASNBuilder.build_asn(shipment_package, control_number=control_number)
BuildAsn(control_number) ==
  /\ IF validate_shipment_package(shipment) # ""
       THEN /\ asn' = Asn("raised", <<>>,
                          validate_shipment_package(shipment))
            /\ UNCHANGED hl_counter
       ELSE /\ asn' = Asn("returned",
                          build_asn(shipment, "SENDER", "RECEIVER",
                                    IF control_number = NoControlNumber
                                      THEN generate_control_number(GeneratedAt)
                                      ELSE control_number),
                          "")
            /\ hl_counter' = build_hierarchy(shipment).counter
  /\ UNCHANGED <<shipment, hierarchy, genVars, packVars>>

DocNext ==
  \/ BuildHierarchy
  \/ \E control_number \in ControlNumbers : BuildAsn(control_number)

(***************************************************************************)
(* cartonize_order, steps 4 to 8: the packed cartons get their SSCCs and   *)
(* weights, the Order and the Shipment are built, and the package is       *)
(* returned.                                                               *)
(***************************************************************************)
\* steps 4 and 5 for the carton at index i: its id, the SSCC generated for
\* it, and the weight computed from its items
FinishedCarton(c, sscc) ==
  [Carton(get_carton_id(c.sequence_number), Text(get_full_sscc(sscc)),
          c.sequence_number, c.items)
     EXCEPT !.weight = calculate_weight(c.items)]

\* mutant: the identifiers are handed out from the last carton backwards
FinishedCartonsReversed(cs, ssccs) ==
  [i \in 1..Len(cs) |-> FinishedCarton(cs[i], ssccs[Len(cs) - i + 1])]

FinishedCartons(cs, ssccs) ==
  [i \in 1..Len(cs) |-> FinishedCarton(cs[i], ssccs[i])]

\* mutant: the Order lists the id of the first carton only
build_shipment_first_id(cs) ==
  Shipment("UPSN", <<"123 Industrial Blvd", "Dallas", "TX 75201">>,
           <<"456 Retail Ave", "Austin", "TX 78701">>,
           <<Order("ORD-2025-001", "PO-1", <<cs[1].carton_id>>)>>,
           cs)

\* step 6 and _build_shipment up to calculate_totals
build_shipment(cs) ==
  Shipment("UPSN", <<"123 Industrial Blvd", "Dallas", "TX 75201">>,
           <<"456 Retail Ave", "Austin", "TX 78701">>,
           <<Order("ORD-2025-001", "PO-1",
                   [i \in 1..Len(cs) |-> cs[i].carton_id])>>,
           cs)

\* _build_shipment, the logger.info line: f"{shipment.total_weight:.2f}"
\* formats a float and raises TypeError for None
LogLineFormats(shp) == shp.total_weight # None

\* cartonize_order from step 4 to its return
CompleteOrder ==
  LET run == BatchRun(current_serial, Len(cartons), <<>>)
      built == build_shipment(FinishedCartons(cartons, run.out))
  IN  /\ pc = "done"
      /\ current_serial' = run.serial
      /\ issued' = issued \o [i \in 1..Len(run.out) |-> Issue(run.out[i])]
      /\ last' = IF ~run.ok
                   THEN Outcome("generate_next", FALSE, NoSSCC, <<>>, <<>>,
                                FALSE)
                 ELSE IF run.out = <<>> THEN last
                 ELSE Outcome("generate_next", TRUE, run.out[Len(run.out)],
                              <<>>, <<>>, FALSE)
      /\ IF ~run.ok
           THEN /\ pc' = "overflow_error"
                /\ UNCHANGED shipment
         ELSE IF ~LogLineFormats(built)
           THEN /\ pc' = "type_error"
                /\ UNCHANGED shipment
         ELSE /\ pc' = "returned"
              /\ shipment' = built
      /\ UNCHANGED <<pack_config, items, item_idx, remaining_qty,
                     current_carton_items, current_carton_qty,
                     current_carton_weight, sequence, cartons, retry,
                     config, reset_log, callers, hl_counter, hierarchy,
                     asn>>

PackNext ==
  \/ CartonizeEmpty
  \/ PackStart
  \/ GreedyCloseRetry
  \/ GreedyAdmit
  \/ GreedyNextItem
  \/ GroupedCarve
  \/ GroupedNextItem
  \/ CompleteOrder

(***************************************************************************)
(* Specifications: one per component, the other components at rest.        *)
(***************************************************************************)
\* the packing call, not started
PackIdle ==
  /\ pack_config = [max_items_per_carton |-> 50, max_weight_per_carton |-> 50,
                    single_item_cartons |-> FALSE]
  /\ items = <<>>
  /\ pc = "idle"
  /\ item_idx = 0
  /\ remaining_qty = 0
  /\ current_carton_items = <<>>
  /\ current_carton_qty = 0
  /\ current_carton_weight = 0
  /\ sequence = 1
  /\ cartons = <<>>
  /\ retry = FALSE

\* the builder, constructed and not yet handed a package
DocIdle ==
  /\ shipment = Shipment("", <<>>, <<>>, <<>>, <<>>)
  /\ hl_counter = 0
  /\ hierarchy = NoNode
  /\ asn = NoAsn

InitGen == GenInit /\ PackIdle /\ DocIdle

SpecGen == InitGen /\ [][GenNext]_vars

InitPack == GenIdle /\ PackInit /\ DocIdle

SpecPack == InitPack /\ [][PackNext]_vars

InitDoc == GenIdle /\ PackIdle /\ DocInit

SpecDoc == InitDoc /\ [][DocNext]_vars

(***************************************************************************)
(* Claims about the document, checked under SpecDoc.                       *)
(***************************************************************************)
\* position in a document of the first segment with this name
SegmentIndex(document, name) ==
  CHOOSE i \in 1..Len(document) :
    /\ document[i][1] = name
    /\ \A j \in 1..(i - 1) : document[j][1] # name

\* number of records from the ST record through the SE record inclusive
StToSe(document) ==
  SegmentIndex(document, "SE") - SegmentIndex(document, "ST") + 1

\* C1 (as stated): in every document build_asn returns, the count field of
\* the SE record equals the number of records from ST through SE inclusive.
C1_SeCountsStThroughSe ==
  asn.status = "returned" =>
    asn.document[SegmentIndex(asn.document, "SE")][2]
      = NumText(StToSe(asn.document))

\* what the SE record carries instead: one more than that number
C1_SeCountsOneMore ==
  asn.status = "returned" =>
    asn.document[SegmentIndex(asn.document, "SE")][2]
      = NumText(StToSe(asn.document) + 1)

RECURSIVE TotalEntries(_)
\* item entries over a list of cartons
TotalEntries(cs) ==
  IF cs = <<>> THEN 0 ELSE Len(Head(cs).items) + TotalEntries(Tail(cs))

\* item entries of the first carton of cs that carries the id, 0 without one
EntriesOfFirst(cs, id) ==
  IF cs = <<>> \/ \A i \in 1..Len(cs) : cs[i].carton_id # id THEN 0
  ELSE LET first == CHOOSE i \in 1..Len(cs) :
                      /\ cs[i].carton_id = id
                      /\ \A j \in 1..Len(cs) : cs[j].carton_id = id => i <= j
       IN  Len(cs[first].items)

RECURSIVE ListedEntries(_, _)
\* item entries reached through a list of carton ids, listing by listing
ListedEntries(ids, cs) ==
  IF ids = <<>> THEN 0
  ELSE EntriesOfFirst(cs, Head(ids)) + ListedEntries(Tail(ids), cs)

RECURSIVE OrdersEntries(_, _)
OrdersEntries(orders, cs) ==
  IF orders = <<>> THEN 0
  ELSE ListedEntries(Head(orders).carton_ids, cs)
       + OrdersEntries(Tail(orders), cs)

\* the listings of carton ids: <<o, r>> is entry r of order o's carton_ids
Listings(shp) ==
  UNION { { <<o, r>> : r \in 1..Len(shp.orders[o].carton_ids) } :
          o \in 1..Len(shp.orders) }

ListedId(shp, p) == shp.orders[p[1]].carton_ids[p[2]]

\* every carton has its own id and is listed exactly once by the orders,
\* and every id listed is the id of a carton
ListedExactlyOnce(shp) ==
  /\ \A i, j \in 1..Len(shp.cartons) :
       shp.cartons[i].carton_id = shp.cartons[j].carton_id => i = j
  /\ \A i \in 1..Len(shp.cartons) :
       Cardinality({ p \in Listings(shp) :
                       ListedId(shp, p) = shp.cartons[i].carton_id }) = 1
  /\ \A p \in Listings(shp) :
       \E i \in 1..Len(shp.cartons) :
         shp.cartons[i].carton_id = ListedId(shp, p)

\* C5 (as stated): for any shipment, whatever carton ids its orders list,
\* get_line_item_count(build_hierarchy(shipment)) equals the number of item
\* entries over all cartons of shipment.cartons.
C5_CountsAllEntries ==
  hierarchy # NoNode =>
    get_line_item_count(hierarchy) = TotalEntries(shipment.cartons)

\* C5 (amended): get_line_item_count(build_hierarchy(shipment)) equals the
\* number of item entries reached through the carton ids the orders list,
\* each listing counting the entries of the first carton with that id and
\* an id no carton has counting nothing; it equals the number of item
\* entries over all cartons when every carton has its own id and is listed
\* exactly once.
C5_CountsListedEntries ==
  hierarchy # NoNode =>
    /\ get_line_item_count(hierarchy)
         = OrdersEntries(shipment.orders, shipment.cartons)
    /\ ListedExactlyOnce(shipment) =>
         get_line_item_count(hierarchy) = TotalEntries(shipment.cartons)

\* C5 witness: a hierarchy was built for a shipment of two cartons with
\* entries, whose orders list an id no carton has and list one carton in
\* both orders, and the count differs from the entries over all cartons
C5_Witness ==
  /\ hierarchy # NoNode
  /\ Len(shipment.cartons) = 2 /\ Len(shipment.orders) = 2
  /\ \A i \in 1..2 : shipment.cartons[i].items # <<>>
  /\ \A o \in 1..2 : shipment.orders[o].carton_ids
                       = <<"CTN-9999", get_carton_id(1)>>
  /\ get_line_item_count(hierarchy) > 0
  /\ get_line_item_count(hierarchy) # TotalEntries(shipment.cartons)

(***************************************************************************)
(* _calculate_check_digit as a function of its three arguments, applied    *)
(* to digit strings of every company-prefix length.                        *)
(***************************************************************************)
\* serial references handed to _calculate_check_digit: every digit string
\* of MaxPadding digits, and the two nine-digit ones of the test suite
CheckSerials ==
  { [i \in 1..MaxPadding |-> f[i]] : f \in [1..MaxPadding -> 0..9] }
  \cup { <<1,2,3,4,5,6,7,8,9>>, <<0,0,0,0,0,0,0,0,1>> }

\* the arguments of one call, held until the call is made
CheckArgs ==
  { Outcome("arguments", TRUE,
            SSCC(<<d>>, company_prefix, serial_reference, <<>>), <<>>, <<>>,
            FALSE) :
      d \in 0..9, company_prefix \in CompanyPrefixes,
      serial_reference \in CheckSerials }

\* the generator at rest, and three arguments for the static method
DigitInit ==
  /\ config = [company_prefix |-> <<0,6,1,4,1,4,1>>, extension_digit |-> <<0>>,
               serial_start |-> 1, serial_padding |-> 9]
  /\ current_serial = 1
  /\ issued = <<>>
  /\ reset_log = <<>>
  /\ last \in CheckArgs
  /\ callers = NoCallers

\* SSCCGenerator._calculate_check_digit(extension, company_prefix,
\* serial_reference), called as the static method it is
CalculateCheckDigit ==
  /\ last.op = "arguments"
  /\ last' = Outcome("calculate_check_digit", TRUE, last.sscc, <<>>,
                     calculate_check_digit(last.sscc.extension_digit,
                                           last.sscc.company_prefix,
                                           last.sscc.serial_reference),
                     FALSE)
  /\ UNCHANGED <<config, current_serial, issued, reset_log, callers, packVars,
                 docVars>>

DigitNext == CalculateCheckDigit

InitDigit == DigitInit /\ PackIdle /\ DocIdle

SpecDigit == InitDigit /\ [][DigitNext]_vars

\* the sum of the digits of s weighted 3, 1, 3, 1, ... with weight 3 at the
\* rightmost digit, position by position from the left
RECURSIVE WeightedSum(_, _)
WeightedSum(s, k) ==
  IF k > Len(s) THEN 0
  ELSE s[k] * (IF (Len(s) - k) % 2 = 0 THEN 3 ELSE 1) + WeightedSum(s, k + 1)

HLRecords(document) ==
  { i \in 1..Len(document) : document[i][1] = "HL" }

\* the number an HL01 / HL02 text denotes
HlValue(document, text) ==
  CHOOSE n \in 0..Len(document) : NumText(n) = text

\* level code of the node that contains a node of this level
ContainerLevel(level_code) ==
  CASE level_code = "O" -> "S"
    [] level_code = "T" -> "O"
    [] level_code = "I" -> "T"
    [] OTHER -> ""

\* HL records of the containing level written before record i
ContainersBefore(document, i) ==
  { j \in HLRecords(document) :
      j < i /\ document[j][4] = ContainerLevel(document[i][4]) }

\* the HL record of the node containing the node of HL record i: in a
\* depth-first document, the latest record of the containing level before i
ContainerOf(document, i) ==
  CHOOSE j \in ContainersBefore(document, i) :
    \A k \in ContainersBefore(document, i) : k <= j

RECURSIVE ChildrenNameParent(_)
RECURSIVE EachNamesParent(_, _)
\* in a tree, every child carries its parent's number, in the node and in
\* the HL02 element of its HL record
ChildrenNameParent(node) == EachNamesParent(node.children, node)

EachNamesParent(children, node) ==
  children = <<>> \/
    /\ Head(children).parent_hl = node.hl_number
    /\ Head(children).segments[1][3] = node.segments[1][2]
    /\ ChildrenNameParent(Head(children))
    /\ EachNamesParent(Tail(children), node)

\* C12: in every document body each HL record's parent field equals the HL
\* number of the record of the node that contains it (order -> shipment,
\* carton -> its order, item -> its carton), the parent field is empty for
\* exactly one record, the shipment root, and every parent number is
\* smaller than its child's number.
C12_ParentFields ==
  /\ asn.status = "returned" =>
       LET d == asn.document IN
       /\ Cardinality({ i \in HLRecords(d) : d[i][3] = "" }) = 1
       /\ \A i \in HLRecords(d) :
            IF d[i][4] = "S" THEN d[i][3] = ""
            ELSE /\ ContainersBefore(d, i) # {}
                 /\ d[i][3] = d[ContainerOf(d, i)][2]
                 /\ HlValue(d, d[i][3]) < HlValue(d, d[i][2])
  /\ hierarchy # NoNode =>
       /\ hierarchy.parent_hl = ""
       /\ ChildrenNameParent(hierarchy)

\* C12 witness: a returned document with two order records, the second
\* order holding a carton with an item whose parent number is past 5
C12_Witness ==
  /\ asn.status = "returned"
  /\ Cardinality({ i \in HLRecords(asn.document) :
                     asn.document[i][4] = "O" }) = 2
  /\ \E i \in HLRecords(asn.document) :
       /\ asn.document[i][4] = "I"
       /\ HlValue(asn.document, asn.document[i][3]) > 5

\* C13: in every document build_asn returns, the line-item count of the CTT
\* record equals the number of item-level (level code I) HL records.
C13_CttCountsItemRecords ==
  asn.status = "returned" =>
    asn.document[SegmentIndex(asn.document, "CTT")][2]
      = NumText(Cardinality({ i \in HLRecords(asn.document) :
                                asn.document[i][4] = "I" }))

\* C13 witness: a returned document of two orders whose CTT record counts
\* four item records
C13_Witness ==
  /\ asn.status = "returned"
  /\ asn.document[SegmentIndex(asn.document, "CTT")][2] = "4"
  /\ Len(shipment.orders) = 2

\* a carton build_asn refuses: no item entries, or no SSCC
Offending(carton) == carton.items = <<>> \/ carton.sscc = ""

\* the shipment has one of the faults build_asn validates
Faulty(shp) ==
  \/ shp.orders = <<>>
  \/ shp.cartons = <<>>
  \/ \E i \in 1..Len(shp.cartons) : Offending(shp.cartons[i])

\* the first offending carton, in the order of shipment.cartons
FirstOffending(shp) ==
  shp.cartons[CHOOSE i \in 1..Len(shp.cartons) :
                /\ Offending(shp.cartons[i])
                /\ \A j \in 1..(i - 1) : ~Offending(shp.cartons[j])]

\* C14: build_asn raises a validation error and returns no text at all when
\* the shipment has no orders, has no cartons, or has a carton with no
\* items or with no SSCC (and only then); for a carton fault the error
\* names the first offending carton in shipment order.
C14_ValidationRaises ==
  asn.status # "none" =>
    /\ Faulty(shipment) <=> asn.status = "raised"
    /\ asn.status = "raised" =>
         /\ asn.document = <<>>
         /\ asn.error # ""
         /\ (shipment.orders # <<>> /\ shipment.cartons # <<>>) =>
              asn.error \in
                { "Carton " \o FirstOffending(shipment).carton_id
                    \o " must have at least one item",
                  "Carton " \o FirstOffending(shipment).carton_id
                    \o " must have an SSCC" }
    /\ asn.status = "returned" => asn.document # <<>>

\* C14 witness: build_asn raised for a shipment whose two cartons, of
\* different ids, are both offending, the second one for its items
C14_Witness ==
  /\ asn.status = "raised"
  /\ Len(shipment.orders) > 0 /\ Len(shipment.cartons) = 2
  /\ shipment.cartons[1].sscc = "" /\ shipment.cartons[2].items = <<>>
  /\ shipment.cartons[1].carton_id # shipment.cartons[2].carton_id
  /\ asn.error = "Carton " \o shipment.cartons[1].carton_id
                   \o " must have an SSCC"

(***************************************************************************)
(* CartonizationConfig construction followed by packing: the values a      *)
(* caller passes, the field constraints (config.py), then the packing      *)
(* call with the configuration that was accepted.                          *)
(***************************************************************************)
\* cap values a caller passes: a negative one (-2; -1 is None), zero, and
\* the values of the bounds
PassedUnitCaps == {-2, 0} \cup 1..MaxCap

PassedWeightCaps == {None, -2} \cup 0..MaxWeightCap

PassedConfigs ==
  [max_items_per_carton : PassedUnitCaps,
   max_weight_per_carton : PassedWeightCaps,
   single_item_cartons : BOOLEAN]

\* the Field constraints: max_items_per_carton ge=1, max_weight_per_carton
\* None or ge=0
FieldsAccept(passed) ==
  /\ passed.max_items_per_carton >= 1
  /\ \/ passed.max_weight_per_carton = None
     \/ passed.max_weight_per_carton >= 0

ConfigInit ==
  /\ pack_config \in PassedConfigs
  /\ items \in ItemLists
  /\ pc = "config"
  /\ item_idx = 0
  /\ remaining_qty = 0
  /\ current_carton_items = <<>>
  /\ current_carton_qty = 0
  /\ current_carton_weight = 0
  /\ sequence = 1
  /\ cartons = <<>>
  /\ retry = FALSE

\* CartonizationConfig(...): a ValidationError, or the configuration the
\* engine is constructed with
ConstructConfig ==
  /\ pc = "config"
  /\ pc' = IF FieldsAccept(pack_config) THEN "start" ELSE "config_error"
  /\ UNCHANGED <<pack_config, items, item_idx, remaining_qty,
                 current_carton_items, current_carton_qty,
                 current_carton_weight, sequence, cartons, retry,
                 genVars, docVars>>

ConfigNext ==
  \/ ConstructConfig
  \/ CartonizeEmpty
  \/ PackStart
  \/ GreedyCloseRetry
  \/ GreedyAdmit
  \/ GreedyNextItem
  \/ GroupedCarve
  \/ GroupedNextItem
  \/ CompleteOrder

InitConfig == GenIdle /\ ConfigInit /\ DocIdle

SpecConfig == InitConfig /\ [][ConfigNext]_vars

\* C15 (as stated): a unit cap or weight cap configured <= 0, zero
\* included, is refused with a configuration error before any packing step
\* runs, so no packing step ever runs under such a cap.
C15_NonPositiveCapRefused ==
  pc \notin {"config", "config_error"} =>
    /\ pack_config.max_items_per_carton > 0
    /\ \/ pack_config.max_weight_per_carton = None
       \/ pack_config.max_weight_per_carton > 0

\* what the constraints give: negative caps and a unit cap of 0 are refused
\* before packing, a weight cap of 0 is not
C15_NegativeCapRefused ==
  pc \notin {"config", "config_error"} =>
    /\ pack_config.max_items_per_carton > 0
    /\ \/ pack_config.max_weight_per_carton = None
       \/ pack_config.max_weight_per_carton >= 0

(***************************************************************************)
(* Claims about the whole cartonize_order call, checked under SpecPack.    *)
(***************************************************************************)
\* C16: cartonize_order on an order with zero line items raises the
\* validation error as its only step, with no carton created and no
\* identifier consumed: the serial counter and the list of issued SSCCs
\* are the same after the failed call as before it.
C16_EmptyOrderRefused ==
  [][(pc = "start" /\ items = <<>>) =>
       /\ pc' = "error"
       /\ cartons' = <<>>
       /\ sequence' = sequence
       /\ current_serial' = current_serial
       /\ issued' = issued
       /\ shipment' = shipment]_vars

\* the refused call has happened; the engine's counter is where it started
C16_Witness ==
  /\ items = <<>>
  /\ pc = "error"
  /\ current_serial = config.serial_start

\* a returned order has consumed one identifier per carton
OrderConsumesSerials ==
  pc = "returned" =>
    /\ current_serial = config.serial_start + Len(cartons)
    /\ Len(issued) = Len(cartons)
    /\ Len(cartons) >= 1

\* an order none of whose line items carries a unit weight
NoUnitWeights == \A i \in 1..Len(items) : items[i].unit_weight = None

\* C17 (as stated): for every non-empty order the call ends by returning a
\* shipment whose total_cartons is the number of its cartons and whose
\* total_weight is the sum of its carton weights, or None when no line
\* item carries a unit weight; it does not end in an error, an order
\* without any unit weight included.
C17_NonEmptyOrderReturned ==
  /\ pc \in {"error", "type_error", "overflow_error"} => items = <<>>
  /\ pc = "returned" =>
       /\ shipment.total_cartons = Len(shipment.cartons)
       /\ Len(shipment.cartons) = Len(cartons)
       /\ shipment.total_weight =
            IF NoUnitWeights THEN None
            ELSE SumCartonWeights(shipment.cartons)

\* what the code gives: a returned shipment has a positive total weight
\* equal to the sum of its carton weights, and the orders whose total
\* weight is None end in the TypeError of the log line
C17_ReturnedHasWeight ==
  /\ pc = "returned" =>
       /\ shipment.total_cartons = Len(shipment.cartons)
       /\ shipment.total_weight = SumCartonWeights(shipment.cartons)
       /\ shipment.total_weight > 0
  /\ pc = "type_error" =>
       /\ items # <<>>
       /\ calculate_weight(items) = 0
       /\ current_serial = config.serial_start + Len(cartons)

(***************************************************************************)
(* The text build_asn returns: each segment is its elements joined by the  *)
(* element separator, the document is the segments joined by the segment   *)
(* terminator with one more terminator at the end.                         *)
(***************************************************************************)
segment_terminator == "~"

element_separator == "*"

RECURSIVE join(_, _)
\* sep.join(parts)
join(sep, parts) ==
  IF parts = <<>> THEN ""
  ELSE IF Len(parts) = 1 THEN parts[1]
  ELSE parts[1] \o sep \o join(sep, Tail(parts))

\* the str a generate_* method returns for a segment
segment_text(segment) == join(element_separator, segment)

\* mutant: the terminator only between segments
edi_content_joined(segments) ==
  join(segment_terminator, [i \in 1..Len(segments) |->
                              segment_text(segments[i])])

\* build_asn: segment_terminator.join(segments) + segment_terminator
edi_content(segments) ==
  join(segment_terminator, [i \in 1..Len(segments) |->
                              segment_text(segments[i])])
    \o segment_terminator

RECURSIVE count(_, _)
\* text.count(c) for a one-character c
count(text, c) ==
  IF Len(text) = 0 THEN 0
  ELSE IF Len(text) = 1 THEN (IF text = c THEN 1 ELSE 0)
  ELSE LET half == Len(text) \div 2
       IN  count(SubSeq(text, 1, half), c)
             + count(SubSeq(text, half + 1, Len(text)), c)

\* ASNBuilder.count_segments
count_segments(text) == count(text, segment_terminator)

(***************************************************************************)
(* Claims about the document text, checked under SpecDoc.                  *)
(***************************************************************************)
RECURSIVE Terminated(_)
\* every record followed by the terminator, in order
Terminated(document) ==
  IF document = <<>> THEN ""
  ELSE segment_text(Head(document)) \o segment_terminator
         \o Terminated(Tail(document))

BodyRecordNames ==
  {"HL", "TD5", "DTM", "N1", "N3", "REF", "TD1", "LIN", "SN1"}

\* C18: the returned document is the records ISA, GS, ST, BSN, the whole
\* hierarchy body, CTT, SE, GE, IEA in that order, each followed by the
\* segment terminator, the last one included, and count_segments of the
\* text is the number of records emitted.
C18_RecordOrderAndTerminators ==
  asn.status = "returned" =>
    LET document == asn.document
        n == Len(document)
        body == SubSeq(document, 5, n - 4)
    IN  /\ n >= 9
        /\ <<document[1][1], document[2][1], document[3][1], document[4][1]>>
             = <<"ISA", "GS", "ST", "BSN">>
        /\ body = get_all_segments(build_hierarchy(shipment).node)
        /\ body # <<>>
        /\ \A i \in 1..Len(body) : body[i][1] \in BodyRecordNames
        /\ <<document[n - 3][1], document[n - 2][1], document[n - 1][1],
             document[n][1]>> = <<"CTT", "SE", "GE", "IEA">>
        /\ edi_content(document) = Terminated(document)
        /\ count_segments(edi_content(document)) = n

\* a document whose body holds item records has been returned
C18_Witness ==
  /\ asn.status = "returned"
  /\ Len(asn.document) > 12
  /\ \E i \in 1..Len(asn.document) : asn.document[i][1] = "LIN"
  /\ count_segments(edi_content(asn.document)) = Len(asn.document)

\* element k of the first record with this name
Element(document, name, k) == document[SegmentIndex(document, name)][k + 1]

\* C19: within one returned document the trailer control numbers echo their
\* headers, for a supplied control number of any length and for the
\* generated one: IEA02 = ISA13, GE02 = GS06 and SE02 = ST02.
C19_TrailersEchoHeaders ==
  asn.status = "returned" =>
    /\ Element(asn.document, "IEA", 2) = Element(asn.document, "ISA", 13)
    /\ Element(asn.document, "GE", 2) = Element(asn.document, "GS", 6)
    /\ Element(asn.document, "SE", 2) = Element(asn.document, "ST", 2)

\* a document built from the supplied control number "42": padded to nine
\* characters in the envelope and to four in the transaction set
C19_Witness ==
  /\ asn.status = "returned"
  /\ Element(asn.document, "ISA", 13) = "000000042"
  /\ Element(asn.document, "IEA", 2) = "000000042"
  /\ Element(asn.document, "ST", 2) = "0042"
  /\ Element(asn.document, "SE", 2) = "0042"

(***************************************************************************)
(* Claims about the numbering of the hierarchy, checked under SpecDoc.     *)
(***************************************************************************)
RECURSIVE PreOrder(_)
RECURSIVE PreOrderAll(_)
\* the nodes of a tree, each before its children, children left to right
PreOrder(node) == <<node>> \o PreOrderAll(node.children)

PreOrderAll(children) ==
  IF children = <<>> THEN <<>>
  ELSE PreOrder(Head(children)) \o PreOrderAll(Tail(children))

RECURSIVE SegmentsOf(_)
\* the segments of a list of nodes, node after node
SegmentsOf(nodes) ==
  IF nodes = <<>> THEN <<>>
  ELSE Head(nodes).segments \o SegmentsOf(Tail(nodes))

\* the HL01 values of a segment list, in order
HlNumbers(segments) ==
  LET hl == SelectSeq(segments, LAMBDA s : s[1] = "HL")
  IN  [i \in 1..Len(hl) |-> hl[i][2]]

\* a tree numbered 1..N in pre-order whose flattened list reads that way:
\* node k starts with the HL record numbered k, holds no other HL record,
\* and the flattened list is the nodes' segments in pre-order
NumberedInPreOrder(root, flat, counter) ==
  LET nodes == PreOrder(root)
      N == Len(nodes)
  IN  /\ counter = N
      /\ N = count_nodes(root)
      /\ \A k \in 1..N :
           /\ nodes[k].hl_number = NumText(k)
           /\ nodes[k].segments # <<>>
           /\ nodes[k].segments[1][1] = "HL"
           /\ nodes[k].segments[1][2] = NumText(k)
           /\ \A j \in 2..Len(nodes[k].segments) :
                nodes[k].segments[j][1] # "HL"
      /\ flat = SegmentsOf(nodes)
      /\ HlNumbers(flat) = [k \in 1..N |-> NumText(k)]

\* C20: each build_hierarchy call starts from counter 0 and numbers the N
\* nodes it creates 1..N, without gaps or repeats, in depth-first
\* pre-order; the HL records of the flattened segment list read 1, ..., N
\* in order, and each node's detail records directly follow its own HL
\* record and precede every record of its children.  This holds for the
\* tree of a build_hierarchy call and for the body of a returned document,
\* whichever calls came before.
C20_PreOrderNumbering ==
  /\ hierarchy # NoNode =>
       NumberedInPreOrder(hierarchy, get_all_segments(hierarchy), hl_counter)
  /\ asn.status = "returned" =>
       /\ HlNumbers(asn.document) = [k \in 1..hl_counter |-> NumText(k)]
       /\ SubSeq(asn.document, 5, Len(asn.document) - 4)
            = SegmentsOf(PreOrder(build_hierarchy(shipment).node))

\* a tree with an order, a carton and two items has been built after a
\* document was returned: the second numbering starts from 1 again
C20_Witness ==
  /\ asn.status = "returned"
  /\ hierarchy # NoNode
  /\ hl_counter >= 5
  /\ hierarchy.hl_number = "1"
  /\ \E i \in 1..Len(hierarchy.children) :
       \E j \in 1..Len(hierarchy.children[i].children) :
         Len(hierarchy.children[i].children[j].children) >= 2

(***************************************************************************)
(* Claims about carton ids that resolve to no carton, checked under        *)
(* SpecDoc.                                                                *)
(***************************************************************************)
\* the carton ids of an order that name a carton of the shipment, in order
ResolvedIds(order, shp) ==
  SelectSeq(order.carton_ids,
            LAMBDA id : \E i \in 1..Len(shp.cartons) :
                          shp.cartons[i].carton_id = id)

\* the first carton of the shipment with this id
CartonNamed(shp, id) ==
  shp.cartons[CHOOSE i \in 1..Len(shp.cartons) :
                /\ shp.cartons[i].carton_id = id
                /\ \A j \in 1..(i - 1) : shp.cartons[j].carton_id # id]

\* a carton node shows this carton: its detail records and one child per
\* item entry
ShowsCarton(node, carton) ==
  /\ node.level_code = "T"
  /\ Tail(node.segments)
       = Tail(build_carton_level(carton, "", 0).node.segments)
  /\ Len(node.children) = Len(carton.items)

\* some carton id of the shipment's orders names no carton
HasUnresolvedId(shp) ==
  \E i \in 1..Len(shp.orders) :
    Len(ResolvedIds(shp.orders[i], shp)) < Len(shp.orders[i].carton_ids)

\* C21: a carton id that matches no carton gives no node and no error and
\* takes no HL number: the tree has one order node per order, each order
\* node has one carton node per resolving id, in the order of the ids, the
\* ids after an unresolved one and the later orders included, and the HL
\* numbers are consecutive from 1.
C21_UnresolvedIdSkipped ==
  hierarchy # NoNode =>
    /\ Len(hierarchy.children) = Len(shipment.orders)
    /\ \A i \in 1..Len(shipment.orders) :
         LET ids == ResolvedIds(shipment.orders[i], shipment)
             node == hierarchy.children[i]
         IN  /\ Len(node.children) = Len(ids)
             /\ \A j \in 1..Len(ids) :
                  ShowsCarton(node.children[j], CartonNamed(shipment, ids[j]))
    /\ HlNumbers(get_all_segments(hierarchy))
         = [k \in 1..count_nodes(hierarchy) |-> NumText(k)]
    /\ hl_counter = count_nodes(hierarchy)

\* a tree built from a shipment whose first order lists an id no carton
\* has before one that resolves, and whose second order has a carton too
C21_Witness ==
  /\ hierarchy # NoNode
  /\ Len(shipment.orders) = 2
  /\ shipment.orders[1].carton_ids = <<"CTN-9999", get_carton_id(1)>>
  /\ Len(hierarchy.children[1].children) = 1
  /\ Len(hierarchy.children[2].children) >= 1
  /\ HasUnresolvedId(shipment)

(***************************************************************************)
(* Claims about repeated calls on one builder, checked under SpecDoc.      *)
(***************************************************************************)
\* the tree a builder constructed for this call alone gives: its counter
\* is 0 when the root is built
FreshTree(shp) == build_shipment_level(shp, 0).node

NextOrder ==
  /\ pc \in {"returned", "type_error", "error", "overflow_error"}
  /\ Len(issued) < MaxIssued
  /\ items' \in ItemLists
  /\ pc' = "start"
  /\ item_idx' = 0
  /\ remaining_qty' = 0
  /\ current_carton_items' = <<>>
  /\ current_carton_qty' = 0
  /\ current_carton_weight' = 0
  /\ sequence' = 1
  /\ cartons' = <<>>
  /\ retry' = FALSE
  /\ shipment' = Shipment("", <<>>, <<>>, <<>>, <<>>)
  /\ UNCHANGED <<pack_config, genVars, hl_counter, hierarchy, asn>>

EngineNext ==
  \/ CartonizeEmpty
  \/ PackStart
  \/ GreedyCloseRetry
  \/ GreedyAdmit
  \/ GreedyNextItem
  \/ GroupedCarve
  \/ GroupedNextItem
  \/ CompleteOrder
  \/ NextOrder

InitEngine == GenIdle /\ PackInit /\ DocIdle

SpecEngine == InitEngine /\ [][EngineNext]_vars

\* the text of the j-th identifier the engine has issued
IssuedText(j) == Text(get_full_sscc(issued[j].sscc))

\* C23: over any sequence of calls on one engine the j-th carton packed
\* overall has the serial sscc_serial_start + j - 1; the cartons of a
\* returned shipment carry, in packing order, the identifiers issued last,
\* so each has an SSCC, all SSCCs of the engine are pairwise distinct, and
\* with the default 7-digit prefix each is 18 digits long.
C23_OnePerCartonInOrder ==
  /\ current_serial = config.serial_start + Len(issued)
  /\ \A j \in 1..Len(issued) :
       /\ issued[j].sscc.serial_reference
            = zfill(Str(config.serial_start + j - 1), config.serial_padding)
       /\ Len(get_full_sscc(issued[j].sscc)) = 18
       /\ validate_sscc(issued[j].sscc)
  /\ \A i, j \in 1..Len(issued) : i # j => IssuedText(i) # IssuedText(j)
  /\ pc = "returned" =>
       /\ Len(shipment.cartons) = Len(cartons)
       /\ Len(cartons) <= Len(issued)
       /\ \A k \in 1..Len(cartons) :
            /\ shipment.cartons[k].sequence_number = k
            /\ shipment.cartons[k].sscc
                 = IssuedText(Len(issued) - Len(cartons) + k)
            /\ Len(shipment.cartons[k].sscc) = 18

\* a later call on the engine has returned a shipment of two or more
\* cartons after earlier calls took identifiers
C23_Witness ==
  /\ pc = "returned"
  /\ Len(cartons) >= 2
  /\ Len(issued) > Len(cartons)
  /\ shipment.cartons[1].sscc = IssuedText(Len(issued) - Len(cartons) + 1)

(***************************************************************************)
(* Claims about the cartons each mode produces, checked under SpecPack.    *)
(***************************************************************************)
\* packing has returned its carton list
Packed == pc \in {"done", "returned", "type_error"}

\* ceil(a / b) for b > 0
CeilDiv(a, b) == (a + b - 1) \div b

\* C24: in greedy-mixed mode with unit cap C and no weight cap, Q units in
\* total are packed into exactly ceil(Q / C) cartons, every carton but the
\* last holds exactly C units and the last holds the rest, the units of
\* consecutive line items sharing a carton.
C24_GreedyFillsToCap ==
  (/\ Packed
   /\ ~pack_config.single_item_cartons
   /\ pack_config.max_weight_per_carton = None) =>
    LET C == pack_config.max_items_per_carton
        Q == get_total_units(items)
        n == Len(cartons)
    IN  /\ n = CeilDiv(Q, C)
        /\ \A k \in 1..(n - 1) : get_total_units(cartons[k].items) = C
        /\ get_total_units(cartons[n].items) = Q - C * (n - 1)
        /\ AllEntries(cartons) # <<>>
        /\ \A e \in 1..(Len(AllEntries(cartons)) - 1) :
             AllEntries(cartons)[e].line <= AllEntries(cartons)[e + 1].line

\* 5 units of two line items under a cap of 2: cartons of 2, 2 and 1, the
\* second carton holding units of both line items
C24_Witness ==
  /\ Packed
  /\ ~pack_config.single_item_cartons
  /\ pack_config.max_weight_per_carton = None
  /\ pack_config.max_items_per_carton = 2
  /\ Len(items) = 2
  /\ get_total_units(items) = 5
  /\ Len(cartons) = 3
  /\ get_total_units(cartons[3].items) = 1
  /\ \E k \in 1..3 : Len(cartons[k].items) = 2

(***************************************************************************)
(* The pipeline: the package cartonize_order returns is handed to          *)
(* build_asn.                                                              *)
(***************************************************************************)
\* build_asn(shipment_package) on the package the engine returned
BuildAsnOfPackage ==
  /\ pc = "returned"
  /\ \E control_number \in ControlNumbers : BuildAsn(control_number)

PipelineNext ==
  \/ CartonizeEmpty
  \/ PackStart
  \/ GreedyCloseRetry
  \/ GreedyAdmit
  \/ GreedyNextItem
  \/ GroupedCarve
  \/ GroupedNextItem
  \/ CompleteOrder
  \/ BuildAsnOfPackage

SpecPipeline == InitPack /\ [][PipelineNext]_vars

\* the HL records of a document with this level code, in order
LevelRecords(document, level_code) ==
  SelectSeq(document, LAMBDA s : s[1] = "HL" /\ s[4] = level_code)

\* positions of the carton HL records of a document, in order
RECURSIVE CartonPositions(_, _)
CartonPositions(document, i) ==
  IF i > Len(document) THEN <<>>
  ELSE (IF document[i][1] = "HL" /\ document[i][4] = "T" THEN <<i>> ELSE <<>>)
       \o CartonPositions(document, i + 1)

\* C25: for every package cartonize_order returns, build_asn passes its
\* validation and returns a document whose body holds one shipment record,
\* one order record, one carton record per packed carton in packing order,
\* each directly followed by the REF*0J record with that carton's SSCC, and
\* one item record per item entry; one line item in one carton gives the
\* single branch S, O, T, I numbered 1 to 4 and a CTT count of 1.
C25_ReturnedPackageBuilds ==
  /\ asn.status # "raised"
  /\ pc = "returned" => validate_shipment_package(shipment) = ""
  /\ asn.status = "returned" =>
       LET document == asn.document
           at == CartonPositions(document, 1)
       IN  /\ Len(LevelRecords(document, "S")) = 1
           /\ Len(LevelRecords(document, "O")) = 1
           /\ Len(at) = Len(cartons)
           /\ \A k \in 1..Len(at) :
                /\ document[at[k] + 1][1] = "REF"
                /\ document[at[k] + 1][2] = "0J"
                /\ document[at[k] + 1][3] = shipment.cartons[k].sscc
                /\ shipment.cartons[k].sscc = IssuedText(k)
           /\ Len(LevelRecords(document, "I")) = Len(AllEntries(cartons))
           /\ Element(document, "CTT", 1)
                = NumText(Len(AllEntries(cartons)))
           /\ (Len(items) = 1 /\ Len(cartons) = 1) =>
                /\ HlNumbers(document) = <<"1", "2", "3", "4">>
                /\ [i \in 1..4 |-> SelectSeq(document,
                                             LAMBDA s : s[1] = "HL")[i][4]]
                     = <<"S", "O", "T", "I">>
                /\ Element(document, "CTT", 1) = "1"

\* a document built from a returned package of one line item in one carton
C25_Witness ==
  /\ asn.status = "returned"
  /\ pc = "returned"
  /\ Len(items) = 1
  /\ Len(cartons) = 1
  /\ HlNumbers(asn.document) = <<"1", "2", "3", "4">>

\* a document built from a returned package of three cartons or more
C25_SeveralCartons ==
  /\ asn.status = "returned"
  /\ Len(cartons) >= 3
  /\ Len(CartonPositions(asn.document, 1)) = Len(cartons)

(***************************************************************************)
(* Claims about the has-children flag, checked under SpecDoc.              *)
(***************************************************************************)
\* HL04 as the level code fixes it
FlagOfLevel(level_code) == IF level_code = "I" THEN "0" ELSE "1"

\* the HL records of a segment list
HlRecords(segments) == SelectSeq(segments, LAMBDA s : s[1] = "HL")

\* C26: HL04 is 1 in every shipment, order and carton HL record, also when
\* the node has no child records, and 0 in every item HL record, in the
\* tree build_hierarchy returns and in the documents build_asn returns.
C26_HasChildrenFlag ==
  /\ hierarchy # NoNode =>
       \A k \in 1..Len(PreOrder(hierarchy)) :
         LET node == PreOrder(hierarchy)[k]
         IN  /\ node.level_code \in {"S", "O", "T", "I"}
             /\ node.segments[1][4] = node.level_code
             /\ node.segments[1][5] = FlagOfLevel(node.level_code)
             /\ node.level_code = "I" => node.children = <<>>
  /\ asn.status = "returned" =>
       \A k \in 1..Len(HlRecords(asn.document)) :
         HlRecords(asn.document)[k][5]
           = FlagOfLevel(HlRecords(asn.document)[k][4])

\* a returned document and a tree with an order node that has no carton
\* node under it and still carries the flag 1
C26_Witness ==
  /\ asn.status = "returned"
  /\ hierarchy # NoNode
  /\ \E i \in 1..Len(hierarchy.children) :
       /\ hierarchy.children[i].children = <<>>
       /\ hierarchy.children[i].segments[1][5] = "1"
  /\ \E k \in 1..Len(HlRecords(asn.document)) :
       HlRecords(asn.document)[k][4] = "I"

(***************************************************************************)
(* Claims about blank optional fields, checked under SpecDoc.              *)
(***************************************************************************)
\* element positions (the name included) of a record with every optional
\* field filled
FullWidth(name) ==
  CASE name = "HL" -> 5
    [] name = "TD5" -> 4
    [] name = "TD1" -> 9
    [] name = "REF" -> 4
    [] name = "N3" -> 3
    [] name = "CTT" -> 6
    [] name = "LIN" -> 4
    [] name = "SN1" -> 4
    [] name = "DTM" -> 4
    [] name = "N1" -> 3
    [] OTHER -> 0

OptionalFieldRecords == {"HL", "TD5", "TD1", "REF", "N3", "CTT"}

\* the records of a segment list that have optional fields
WithOptionalFields(segments) ==
  SelectSeq(segments, LAMBDA s : s[1] \in OptionalFieldRecords)

\* C27 (as stated): every record has the same number of element positions
\* whether or not its optional fields are blank: a blank carrier code,
\* weight, description, second address line or parent is an empty element,
\* and neither the field nor its record is omitted.
C27_FixedPositions ==
  /\ hierarchy # NoNode =>
       /\ \A k \in 1..Len(WithOptionalFields(get_all_segments(hierarchy))) :
            LET s == WithOptionalFields(get_all_segments(hierarchy))[k]
            IN  Len(s) = FullWidth(s[1])
       /\ \E k \in 1..Len(hierarchy.segments) :
            hierarchy.segments[k][1] = "TD5"
  /\ asn.status = "returned" =>
       Len(asn.document[SegmentIndex(asn.document, "CTT")]) = FullWidth("CTT")

\* number of address lines an N3 record can be written from
HasStreetLine(address) == Len(address) >= 2

\* C27 (amended): a blank optional field inside a record is an empty
\* element (the parent of the root HL record, elements 3 to 5 of TD1); a
\* blank optional field at the end of a record is left out together with
\* its separator, so REF and N3 have one element less without description
\* or second address line, TD1 and CTT lack their weight group when the
\* weight is None, TD5 ends after the routing code without carrier code;
\* the builder writes no TD5 record at all for a blank carrier code and no
\* N3 record for an address without ", ".
C27_TrailingBlanksOmitted ==
  /\ \A d \in {"", "Dock door 4"} :
       Len(generate_ref("PO", "PO-1", d)) = IF d = "" THEN 3 ELSE 4
  /\ \A l \in {"", "Suite 2"} :
       Len(generate_n3("1 Main St", l)) = IF l = "" THEN 2 ELSE 3
  /\ \A w \in {None, 0, 2} :
       /\ Len(generate_td1("CTN", 1, w)) = IF w = None THEN 6 ELSE 9
       /\ Len(generate_ctt(1, w)) = IF w = None THEN 2 ELSE 6
       /\ SubSeq(generate_td1("", None, w), 2, 6) = <<"", "", "", "", "">>
  /\ \A c \in CarrierCodes :
       Len(generate_td5(c)) = IF c = "" THEN 2 ELSE 4
  /\ hierarchy # NoNode =>
       /\ Len(hierarchy.segments[1]) = 5
       /\ hierarchy.segments[1][3] = ""
       /\ Len(SelectSeq(hierarchy.segments, LAMBDA s : s[1] = "TD5"))
            = IF shipment.carrier_code = "" THEN 0 ELSE 1
       /\ Len(SelectSeq(hierarchy.segments, LAMBDA s : s[1] = "N3"))
            = (IF HasStreetLine(shipment.ship_from_address) THEN 1 ELSE 0)
              + (IF HasStreetLine(shipment.ship_to_address) THEN 1 ELSE 0)
       /\ \A k \in 1..Len(WithOptionalFields(get_all_segments(hierarchy))) :
            LET s == WithOptionalFields(get_all_segments(hierarchy))[k]
            IN  Len(s) = CASE s[1] = "REF" -> 3
                           [] s[1] = "N3" -> 2
                           [] OTHER -> FullWidth(s[1])
  /\ asn.status = "returned" =>
       Len(asn.document[SegmentIndex(asn.document, "CTT")])
         = IF shipment.total_weight = None THEN 2 ELSE 6

\* a returned document without weight group in CTT, and a tree without
\* TD5 record, for a shipment with blank carrier code and no total weight
C27_Witness ==
  /\ asn.status = "returned"
  /\ hierarchy # NoNode
  /\ shipment.carrier_code = ""
  /\ shipment.total_weight = None
  /\ Len(asn.document[SegmentIndex(asn.document, "CTT")]) = 2
  /\ \A k \in 1..Len(hierarchy.segments) : hierarchy.segments[k][1] # "TD5"

\* the per-carton amount of a line item in grouped mode as C28 states it:
\* min(unit cap, max(1, floor(weight cap / unit weight))), the weight term
\* applying when the weight cap and the unit weight are both present (a
\* unit weight of 0 bounds nothing)
StatedAmount(item) ==
  LET C == pack_config.max_items_per_carton
      W == pack_config.max_weight_per_carton
      u == item.unit_weight
  IN  IF W # None /\ u # None /\ u # 0
        THEN Min(C, IF W \div u < 1 THEN 1 ELSE W \div u)
        ELSE C

\* the same amount with the weight term applying when both values are
\* present and not 0
TruthyAmount(item) ==
  LET C == pack_config.max_items_per_carton
      W == pack_config.max_weight_per_carton
      u == item.unit_weight
  IN  IF Truthy(W) /\ Truthy(u)
        THEN Min(C, IF W \div u < 1 THEN 1 ELSE W \div u)
        ELSE C

\* the cartons of a list that hold line item l, as positions
CartonsOfLine(cs, l) ==
  { k \in 1..Len(cs) : \E e \in 1..Len(cs[k].items) : cs[k].items[e].line = l }

\* grouped packing has given every line item ceil(q / p) consecutive
\* cartons of one entry each, all but the last of p units, p the amount
\* the operator gives
CarvedBy(Amount(_)) ==
  /\ \A k \in 1..Len(cartons) : Len(cartons[k].items) = 1
  /\ \A l \in 1..Len(items) :
       LET own == CartonsOfLine(cartons, l)
           p == Amount(items[l])
           q == items[l].quantity
       IN  /\ Cardinality(own) = CeilDiv(q, p)
           /\ \A a, b \in own : \A k \in a..b : k \in own
           /\ \A k \in own :
                cartons[k].items[1].quantity
                  = IF (k + 1) \in own THEN p
                    ELSE q - p * (Cardinality(own) - 1)
  /\ \A k \in 1..(Len(cartons) - 1) :
       cartons[k].items[1].line <= cartons[k + 1].items[1].line

\* C28 (as stated): in grouped mode every carton holds exactly one entry of
\* one SKU and each carve takes min(remaining quantity, unit cap,
\* max(1, floor(weight cap / unit weight))) units, the weight term applying
\* when a weight cap and a unit weight are both present, so an item of
\* quantity q with per-carton amount p gives ceil(q / p) consecutive
\* cartons.
C28_GroupedCarve ==
  (Packed /\ pack_config.single_item_cartons) => CarvedBy(StatedAmount)

\* what the code gives: the same with a weight cap of 0 treated as absent
C28_GroupedCarveTruthy ==
  (Packed /\ pack_config.single_item_cartons) => CarvedBy(TruthyAmount)

\* C29: in the carton list of packing, in either mode, the carton at
\* position k has sequence number k, holds at least one entry and every
\* entry has a quantity >= 1; the carton ids of a returned shipment are
\* therefore pairwise distinct and the order's carton id list names every
\* carton exactly once, in packing order.
C29_SequenceAndContent ==
  /\ \A k \in 1..Len(cartons) :
       /\ cartons[k].sequence_number = k
       /\ cartons[k].items # <<>>
       /\ \A e \in 1..Len(cartons[k].items) : cartons[k].items[e].quantity >= 1
  /\ Packed => Len(cartons) >= 1
  /\ pc = "returned" =>
       /\ Len(shipment.cartons) = Len(cartons)
       /\ \A k \in 1..Len(cartons) :
            /\ shipment.cartons[k].carton_id = get_carton_id(k)
            /\ shipment.cartons[k].sequence_number = k
            /\ shipment.cartons[k].items = cartons[k].items
       /\ \A j, k \in 1..Len(cartons) :
            j # k => shipment.cartons[j].carton_id
                       # shipment.cartons[k].carton_id
       /\ Len(shipment.orders) = 1
       /\ shipment.orders[1].carton_ids
            = [k \in 1..Len(cartons) |-> get_carton_id(k)]

\* a returned shipment of three or more cartons, one of them closed by the
\* greedy loop with entries of two line items
C29_Witness ==
  /\ pc = "returned"
  /\ ~pack_config.single_item_cartons
  /\ Len(cartons) >= 3
  /\ \E k \in 1..Len(cartons) : Len(cartons[k].items) = 2
  /\ shipment.orders[1].carton_ids[3] = "CTN-0003"


\* ---------------------------------------------------------------------
\* One SSCCGenerator shared by two callers without a lock
\* ---------------------------------------------------------------------

\* a caller is between its read of current_serial and its store
MidCall(t) == callers.at[t] \in {"read", "loaded"}

\* serial_str = str(self.current_serial).zfill(...) and the check that
\* follows it: caller t begins a call, reads the counter and either raises
\* or goes on with the value it read. seen is the number of identifiers
\* handed out when the counter was read.
ReadSerial(t) ==
  /\ ~MidCall(t)
  /\ Len(issued) + Cardinality({u \in Callers : MidCall(u)}) < MaxIssued
  /\ callers' =
       [at |-> [callers.at EXCEPT
                  ![t] = IF Overflows(current_serial) THEN "raised"
                         ELSE "read"],
        serial |-> [callers.serial EXCEPT ![t] = current_serial],
        loaded |-> [callers.loaded EXCEPT ![t] = None],
        sscc |-> [callers.sscc EXCEPT ![t] = NoSSCC],
        seen |-> [callers.seen EXCEPT ![t] = Len(issued)],
        overlapped |-> callers.overlapped
                         \/ (~Overflows(current_serial)
                               /\ \E u \in Callers \ {t} : MidCall(u))]
  /\ last' = IF Overflows(current_serial)
               THEN Outcome("generate_next", FALSE, NoSSCC, <<>>, <<>>, FALSE)
               ELSE last
  /\ UNCHANGED <<config, current_serial, issued, reset_log, packVars,
                 docVars>>

\* self.current_serial += 1, first half: the counter is loaded
LoadSerial(t) ==
  /\ callers.at[t] = "read"
  /\ callers' = [callers EXCEPT !.at[t] = "loaded",
                                !.loaded[t] = current_serial]
  /\ UNCHANGED <<config, current_serial, issued, reset_log, last, packVars,
                 docVars>>

\* self.current_serial += 1, second half: the sum is stored, and the SSCC
\* built from the value read at the start is returned
StoreSerial(t) ==
  /\ callers.at[t] = "loaded"
  /\ current_serial' = SerialAfter(callers.loaded[t])
  /\ callers' = [callers EXCEPT !.at[t] = "returned",
                                !.sscc[t] = NextSSCC(callers.serial[t])]
  /\ issued' = Append(issued, Issue(NextSSCC(callers.serial[t])))
  /\ last' = Outcome("generate_next", TRUE, NextSSCC(callers.serial[t]),
                     <<>>, <<>>, FALSE)
  /\ UNCHANGED <<config, reset_log, packVars, docVars>>

SharedNext ==
  \E t \in Callers : ReadSerial(t) \/ LoadSerial(t) \/ StoreSerial(t)

InitShared == GenInit /\ PackIdle /\ DocIdle

SpecShared == InitShared /\ [][SharedNext]_vars

\* the identifiers handed out so far are pairwise distinct
IssuedDistinct ==
  \A i, j \in 1..Len(issued) : i # j => issued[i].sscc # issued[j].sscc

\* callers t and u both returned from calls that read the counter with no
\* increment in between
ReadTogether(t, u) ==
  /\ t # u
  /\ callers.at[t] = "returned"
  /\ callers.at[u] = "returned"
  /\ callers.seen[t] = callers.seen[u]

\* C30: on a generator shared by two callers without a lock, two calls of
\* generate_next that both read current_serial before either incremented
\* it return the same identifier, and as long as no call began while
\* another was in progress the identifiers handed out are pairwise
\* distinct and the counter has advanced once per identifier.
C30_InterleavedCallsCollide ==
  /\ \A t, u \in Callers :
       ReadTogether(t, u) =>
         /\ callers.sscc[t] = callers.sscc[u]
         /\ get_full_sscc(callers.sscc[t]) = get_full_sscc(callers.sscc[u])
         /\ ~IssuedDistinct
  /\ ~callers.overlapped =>
       /\ IssuedDistinct
       /\ current_serial = config.serial_start + Len(issued)

\* two interleaved calls have both returned, with the same identifier, and
\* the counter has advanced only once for the two
C30_Witness ==
  /\ callers.overlapped
  /\ ReadTogether(1, 2)
  /\ callers.sscc[1] = callers.sscc[2]
  /\ callers.sscc[1] # NoSSCC
  /\ Len(issued) = 2
  /\ current_serial = config.serial_start + 1

\* calls made one after the other have returned distinct identifiers
C30_SequentialCallsDiffer ==
  /\ ~callers.overlapped
  /\ Len(issued) >= 2
  /\ callers.at[1] = "returned"
  /\ callers.at[2] = "returned"
  /\ callers.sscc[1] # callers.sscc[2]

=============================================================================
